---- MODULE Spec2Model ----
(***************************************************************************)
(* HederaOps smart contracts as state machines.                            *)
(*                                                                         *)
(*   AgricultureContract      src/hedera/src/contracts/Agriculture.sol     *)
(*   HederaOpsOrchestrator    src/hedera/workflow.ts (lines 502-779)       *)
(*   SustainabilityContract   src/hedera/src/contracts/Sustainability.sol  *)
(*   HealthcareContract       src/hedera/workflow.ts (lines 783-943)       *)
(*                                                                         *)
(* One action per external function.  A call that reverts leaves the       *)
(* storage as it was (EVM transaction semantics): every action is          *)
(* IF <revert reason> = "" THEN <effects> ELSE UNCHANGED.  The revert       *)
(* reason is computed by an operator that follows the modifiers, the       *)
(* require statements and the checked arithmetic of the function in        *)
(* source order.                                                           *)
(*                                                                         *)
(* processPayment and processInsurancePayout make an external call that    *)
(* hands control to the account being paid.  Each is two actions: the      *)
(* function up to the point where the payee runs, and the return of the    *)
(* call.  In between, the payee may call the functions of the contract     *)
(* (msg.sender is the payee); when the call returns false the transaction  *)
(* reverts to the storage saved at its start.                              *)
(*                                                                         *)
(* keccak256 is modelled as an injective function: an id is the tuple of   *)
(* the values that are hashed, so two ids are equal exactly when the       *)
(* hashed inputs are equal.                                                *)
(*                                                                         *)
(* A Solidity mapping is a function with a finite domain (the keys that    *)
(* were written); reading another key gives the all-zero record.           *)
(*                                                                         *)
(* uint256 and int256 are modelled WordBits wide.                          *)
(***************************************************************************)
EXTENDS Integers, Sequences, FiniteSets, Bags, TLC

VARIABLES
    now,                \* block.timestamp
    wallet,             \* native balance of every account
    \* ---- AgricultureContract
    agriRoles,          \* AccessControl: role -> set of holders
    harvests,           \* mapping(bytes32 => Harvest)
    salesContracts,     \* mapping(bytes32 => SalesContract)
    insurancePolicies,  \* mapping(bytes32 => CropInsurance)
    farmerHarvests,     \* mapping(address => bytes32[])
    agriBalance,        \* address(this).balance
    agriEvents,         \* emitted events (a bag: the order is not kept)
    agriCalls,          \* successful calls of the functions that emit no event
    reentrancyStatus,   \* ReentrancyGuard._status
    frame,              \* the external call in progress, NoFrame if none
    saved,              \* storage at the start of the transaction in progress
    lastPayment,        \* value returned by the last processPayment that returned
    lastRevert,         \* reason of the last revert after a failed external call
    \* ---- HederaOpsOrchestrator
    orchRoles,          \* AccessControl: role -> set of holders
    entities,           \* mapping(address => Entity)
    modules,            \* healthcareModule, agricultureModule, ...
    paused,             \* Pausable._paused
    orchEvents,         \* emitted events (a bag)
    transactions,       \* mapping(bytes32 => CrossModuleTransaction)
    \* ---- SustainabilityContract
    sustRoles,          \* AccessControl: role -> set of holders
    carbonCredits,      \* mapping(bytes32 => CarbonCredit)
    entityCarbonBalance, \* mapping(address => uint256)
    sustEvents,         \* emitted events (a bag)
    lastAward,          \* the award that was the last successful call, if any
    \* ---- HealthcareContract
    healthRoles,        \* AccessControl: role -> set of holders
    healthPolicies,     \* mapping(bytes32 => HealthInsurance) insurancePolicies
    patientInsurance,   \* mapping(address => bytes32)
    visits,             \* mapping(bytes32 => HealthcareVisit)
    healthEvents,       \* emitted events (a bag)
    \* ---- HederaFileService
    files,              \* the files of the ledger: file id -> contents
    fileTask,           \* the createFile call in progress, if any
    \* ---- HederaSmartContractService
    retryTask,          \* the retryOperation call in progress, if any
    \* ---- AgricultureWorkflow
    flow                \* the step the workflow run has reached

agriVars == <<agriRoles, harvests, salesContracts, insurancePolicies,
              farmerHarvests, agriBalance, agriEvents, agriCalls,
              reentrancyStatus, frame, saved, lastPayment, lastRevert>>
orchVars == <<orchRoles, entities, modules, paused, orchEvents, transactions>>
sustVars == <<sustRoles, carbonCredits, entityCarbonBalance, sustEvents, lastAward>>
healthVars == <<healthRoles, healthPolicies, patientInsurance, visits, healthEvents>>
fileVars == <<files, fileTask>>
svcVars == <<fileVars, retryTask, flow>>
vars == <<now, wallet, agriVars, orchVars, sustVars, healthVars, svcVars>>

-----------------------------------------------------------------------------
(* Bounds of the model *)

\* width of uint256 and int256 in the model
WordBits == 29
\* number of times the block timestamp advances
MaxTicks == 1
\* native balance every account starts with
InitialFunds == 1400
\* first block timestamp
StartTime == 100000000
\* stored records per mapping
MaxHarvests == 1
MaxContracts == 1
\* sales contracts stored where the contracts of one harvest are counted
MaxCommitments == 2
MaxPolicies == 1
\* events of one name logged for one id
MaxEventCopies == 2
\* accounts that hold VERIFIER_ROLE at one time
MaxVerifiers == 1

-----------------------------------------------------------------------------
(* Accounts, integers and generic helpers *)

ZeroAddress == "0x0"
Deployer == "deployer"
Addr == {"deployer", "alice", "bob"}

\* type(uint256).max, type(int256).max, type(int256).min
MaxUint == 2^WordBits - 1
IntMax == 2^(WordBits - 1) - 1
IntMin == -(2^(WordBits - 1))

\* what checked arithmetic reverts with
PanicOverflow == "Panic(0x11)"

\* 1 days
SecondsPerDay == 86400

\* mapping write: m[k] = v
Put(m, k, v) == [x \in DOMAIN m \cup {k} |-> IF x = k THEN v ELSE m[x]]

\* emit e
Emit(log, e) == log (+) SetToBag({e})

\* how many events of that name were emitted for that id
EventCount(log, name, id) ==
    BagCardinality([e \in {x \in BagToSet(log) : x.name = name /\ x.id = id}
                       |-> CopiesIn(e, log)])

\* the model stops before MaxEventCopies events of one name are logged for one id
CanEmit(log, e) == EventCount(log, e.name, e.id) < MaxEventCopies

\* keccak256(abi.encodePacked(...)) / keccak256(abi.encode(...)): injective; the
\* first field names the mapping the id is a key of
Keccak(fields) == fields

\* an access control in which every account holds every role
AnyoneHasRole(roles, role, account) == TRUE

\* AccessControl.hasRole
HasRole(roles, role, account) == account \in roles[role]

\* the reason AccessControl.onlyRole reverts with
MissingRole == "AccessControl: missing role"
\* the reason ReentrancyGuard.nonReentrant reverts with
ReentrantCall == "ReentrancyGuard: reentrant call"

-----------------------------------------------------------------------------
(* AgricultureContract: storage *)

EmptyHarvest ==
    [harvestId |-> <<>>, farmer |-> ZeroAddress, cropType |-> "", quantity |-> 0,
     qualityGrade |-> 0, timestamp |-> 0, verified |-> FALSE]

EmptySalesContract ==
    [contractId |-> <<>>, farmer |-> ZeroAddress, buyer |-> ZeroAddress,
     harvestId |-> <<>>, quantity |-> 0, pricePerUnit |-> 0, totalAmount |-> 0,
     escrowAmount |-> 0, deliveryConfirmed |-> FALSE, qualityVerified |-> FALSE,
     completed |-> FALSE, createdAt |-> 0]

EmptyCropInsurance ==
    [policyId |-> <<>>, farmer |-> ZeroAddress, cropType |-> "", insuredValue |-> 0,
     premium |-> 0, coveragePercentage |-> 0, active |-> FALSE, startDate |-> 0,
     endDate |-> 0]

HarvestAt(id) == IF id \in DOMAIN harvests THEN harvests[id] ELSE EmptyHarvest

SalesContractAt(id) ==
    IF id \in DOMAIN salesContracts THEN salesContracts[id] ELSE EmptySalesContract

PolicyAt(id) ==
    IF id \in DOMAIN insurancePolicies THEN insurancePolicies[id]
    ELSE EmptyCropInsurance

NoFrame == [op |-> "none"]
NoSnapshot == <<>>
NOT_ENTERED == "NOT_ENTERED"
ENTERED == "ENTERED"

\* everything a revert of the transaction in progress restores
Snapshot ==
    [wallet |-> wallet, agriRoles |-> agriRoles, harvests |-> harvests,
     salesContracts |-> salesContracts, insurancePolicies |-> insurancePolicies,
     farmerHarvests |-> farmerHarvests, agriBalance |-> agriBalance,
     agriEvents |-> agriEvents, agriCalls |-> agriCalls,
     lastPayment |-> lastPayment]

\* msg.sender of a call: any account starts a transaction; while the contract
\* waits for its external call to return, only the account being paid calls.
CallerOK(caller) ==
    IF frame = NoFrame THEN caller \in Addr ELSE caller = frame.to

\* a record id that no create function produces
UnknownId == <<"unknown">>

AgriInit ==
    /\ agriRoles = [DEFAULT_ADMIN_ROLE |-> {Deployer}, ADMIN_ROLE |-> {Deployer},
                    VERIFIER_ROLE |-> {}]
    /\ harvests = <<>>
    /\ salesContracts = <<>>
    /\ insurancePolicies = <<>>
    /\ farmerHarvests = [a \in Addr |-> <<>>]
    /\ agriBalance = 0
    /\ agriEvents = EmptyBag
    /\ agriCalls = {}
    /\ reentrancyStatus = NOT_ENTERED
    /\ frame = NoFrame
    /\ saved = NoSnapshot
    /\ lastPayment = 0
    /\ lastRevert = ""

-----------------------------------------------------------------------------
(* AgricultureContract: AccessControl.grantRole *)

GrantRoleRevert(caller) ==
    IF ~HasRole(agriRoles, "DEFAULT_ADMIN_ROLE", caller) THEN MissingRole ELSE ""

GrantRole(caller, role, account) ==
    /\ CallerOK(caller)
    /\ IF GrantRoleRevert(caller) = ""
       THEN /\ \/ account \in agriRoles[role]
               \/ Cardinality(agriRoles[role]) < MaxVerifiers
            /\ agriRoles' = [agriRoles EXCEPT ![role] = @ \cup {account}]
            /\ UNCHANGED <<now, wallet, harvests, salesContracts, insurancePolicies,
                           farmerHarvests, agriBalance, agriEvents, agriCalls,
                           reentrancyStatus, frame, saved, lastPayment, lastRevert, orchVars, sustVars, healthVars, svcVars>>
       ELSE UNCHANGED vars

-----------------------------------------------------------------------------
(* AgricultureContract.recordHarvest *)

Crops == {"coffee"}
HarvestQuantities == {0, 2}
Grades == {0, 1, 5, 6}

HarvestId(sender, cropType, quantity, timestamp) ==
    Keccak(<<"harvest", sender, cropType, quantity, timestamp>>)

RecordHarvestRevert(quantity, grade) ==
    IF ~(quantity > 0) THEN "Invalid quantity"
    ELSE IF ~(grade >= 1 /\ grade <= 5) THEN "Invalid grade"
    ELSE ""

\* event HarvestRecorded(harvestId, farmer, cropType, quantity, timestamp); the
\* crop type and the timestamp are part of the id
HarvestRecorded(id, farmer, cropType, quantity, timestamp) ==
    [name |-> "HarvestRecorded", id |-> id, who |-> farmer, amount |-> quantity]

\* what a recordHarvest that passes its requires does to the ledger
RecordHarvestEffects(caller, cropType, quantity, grade) ==
    LET id == HarvestId(caller, cropType, quantity, now)
        ev == HarvestRecorded(id, caller, cropType, quantity, now)
    IN  /\ CanEmit(agriEvents, ev)
        /\ id \in DOMAIN harvests \/ Cardinality(DOMAIN harvests) < MaxHarvests
        /\ harvests' = Put(harvests, id,
               [harvestId |-> id, farmer |-> caller, cropType |-> cropType,
                quantity |-> quantity, qualityGrade |-> grade,
                timestamp |-> now, verified |-> FALSE])
        /\ farmerHarvests' =
               [farmerHarvests EXCEPT ![caller] = Append(@, id)]
        /\ agriEvents' = Emit(agriEvents, ev)
        /\ UNCHANGED <<now, wallet, agriRoles, salesContracts,
                       insurancePolicies, agriBalance, agriCalls,
                       reentrancyStatus, frame, saved, lastPayment,
                       lastRevert, orchVars, sustVars, healthVars, fileVars,
                       retryTask>>

RecordHarvest(caller, cropType, quantity, grade) ==
    /\ CallerOK(caller)
    /\ IF RecordHarvestRevert(quantity, grade) = ""
       THEN RecordHarvestEffects(caller, cropType, quantity, grade) /\ flow' = flow
       ELSE UNCHANGED vars

-----------------------------------------------------------------------------
(* AgricultureContract.createSalesContract *)

Buyers == Addr \cup {ZeroAddress}
SaleQuantities == {0, 1, 3}
Prices == {700}

SalesContractId(sender, buyer, harvestId, timestamp) ==
    Keccak(<<"sale", sender, buyer, harvestId, timestamp>>)

\* a creation that does not look at the farmer of the harvest
CreateSalesContractRevertUnlessBuyer(caller, buyer, harvestId, quantity, pricePerUnit) ==
    IF reentrancyStatus = ENTERED THEN ReentrantCall
    ELSE IF ~(HarvestAt(harvestId).quantity >= quantity) THEN "Insufficient quantity"
    ELSE IF ~(buyer # ZeroAddress) THEN "Invalid buyer"
    ELSE IF quantity * pricePerUnit > MaxUint THEN PanicOverflow
    ELSE ""

\* the modifier, the three require statements and the checked multiplication
CreateSalesContractRevert(caller, buyer, harvestId, quantity, pricePerUnit) ==
    IF reentrancyStatus = ENTERED THEN ReentrantCall
    ELSE IF ~(HarvestAt(harvestId).farmer = caller) THEN "Not harvest owner"
    ELSE IF ~(HarvestAt(harvestId).quantity >= quantity) THEN "Insufficient quantity"
    ELSE IF ~(buyer # ZeroAddress) THEN "Invalid buyer"
    ELSE IF quantity * pricePerUnit > MaxUint THEN PanicOverflow
    ELSE ""

\* event SalesContractCreated(contractId, farmer, buyer, totalAmount); the buyer
\* is part of the id
SalesContractCreated(id, farmer, buyer, totalAmount) ==
    [name |-> "SalesContractCreated", id |-> id, who |-> farmer,
     amount |-> totalAmount]

\* createSalesContract in a model that stores up to limit contracts
\* what a createSalesContract that passes its requires does to the ledger
CreateSalesContractEffects(limit, caller, buyer, harvestId, quantity, pricePerUnit) ==
    LET totalAmount == quantity * pricePerUnit
        id == SalesContractId(caller, buyer, harvestId, now)
        ev == SalesContractCreated(id, caller, buyer, totalAmount)
    IN  /\ CanEmit(agriEvents, ev)
        /\ \/ id \in DOMAIN salesContracts
           \/ Cardinality(DOMAIN salesContracts) < limit
        /\ salesContracts' = Put(salesContracts, id,
               [contractId |-> id, farmer |-> caller, buyer |-> buyer,
                harvestId |-> harvestId, quantity |-> quantity,
                pricePerUnit |-> pricePerUnit, totalAmount |-> totalAmount,
                escrowAmount |-> 0, deliveryConfirmed |-> FALSE,
                qualityVerified |-> FALSE, completed |-> FALSE,
                createdAt |-> now])
        /\ agriEvents' = Emit(agriEvents, ev)
        /\ UNCHANGED <<now, wallet, agriRoles, harvests, insurancePolicies,
                       farmerHarvests, agriBalance, agriCalls,
                       reentrancyStatus, frame, saved, lastPayment,
                       lastRevert, orchVars, sustVars, healthVars, fileVars,
                       retryTask>>

CreateSalesContractUpTo(limit, caller, buyer, harvestId, quantity, pricePerUnit) ==
    /\ CallerOK(caller)
    /\ IF CreateSalesContractRevert(caller, buyer, harvestId, quantity,
                                    pricePerUnit) = ""
       THEN /\ CreateSalesContractEffects(limit, caller, buyer, harvestId,
                                          quantity, pricePerUnit)
            /\ flow' = flow
       ELSE UNCHANGED vars

CreateSalesContract(caller, buyer, harvestId, quantity, pricePerUnit) ==
    CreateSalesContractUpTo(MaxContracts, caller, buyer, harvestId, quantity,
                            pricePerUnit)

-----------------------------------------------------------------------------
(* AgricultureContract.depositEscrow *)

ContractIds == DOMAIN salesContracts \cup {UnknownId}
EscrowValues == {0, 700}

DepositEscrowRevert(caller, id, value) ==
    IF reentrancyStatus = ENTERED THEN ReentrantCall
    ELSE IF ~(SalesContractAt(id).buyer = caller) THEN "Not buyer"
    ELSE IF SalesContractAt(id).completed THEN "Already completed"
    ELSE IF ~(value >= SalesContractAt(id).totalAmount) THEN "Insufficient payment"
    ELSE ""

\* msg.value moves from the caller to the contract with the call
DepositEscrowEffects(caller, id, value) ==
    /\ salesContracts' =
           Put(salesContracts, id,
               [SalesContractAt(id) EXCEPT !.escrowAmount = value])
    /\ wallet' = [wallet EXCEPT ![caller] = @ - value]
    /\ agriBalance' = agriBalance + value
    /\ agriCalls' = agriCalls \cup {<<"depositEscrow", id, value>>}
    /\ UNCHANGED <<now, agriRoles, harvests, insurancePolicies,
                   farmerHarvests, agriEvents, reentrancyStatus, frame,
                   saved, lastPayment, lastRevert, orchVars, sustVars,
                   healthVars, fileVars, retryTask>>

DepositEscrow(caller, id, value) ==
    /\ CallerOK(caller)
    /\ wallet[caller] >= value
    /\ IF DepositEscrowRevert(caller, id, value) = ""
       THEN DepositEscrowEffects(caller, id, value) /\ flow' = flow
       ELSE UNCHANGED vars

-----------------------------------------------------------------------------
(* AgricultureContract.confirmDeliveryAndQuality *)

ConfirmDeliveryAndQualityRevert(caller, id) ==
    IF ~HasRole(agriRoles, "VERIFIER_ROLE", caller) THEN MissingRole
    ELSE IF SalesContractAt(id).completed THEN "Already completed"
    ELSE ""

ConfirmDeliveryAndQuality(caller, id) ==
    /\ CallerOK(caller)
    /\ IF ConfirmDeliveryAndQualityRevert(caller, id) = ""
       THEN /\ \/ id \in DOMAIN salesContracts
               \/ Cardinality(DOMAIN salesContracts) < MaxContracts
            /\ salesContracts' =
                   Put(salesContracts, id,
                       [SalesContractAt(id) EXCEPT !.deliveryConfirmed = TRUE,
                                                   !.qualityVerified = TRUE])
            /\ agriCalls' = agriCalls \cup {<<"confirmDeliveryAndQuality", id, 0>>}
            /\ UNCHANGED <<now, wallet, agriRoles, harvests, insurancePolicies,
                           farmerHarvests, agriBalance, agriEvents,
                           reentrancyStatus, frame, saved, lastPayment, lastRevert, orchVars, sustVars, healthVars, svcVars>>
       ELSE UNCHANGED vars

-----------------------------------------------------------------------------
(* AgricultureContract.processPayment *)

\* a fee of 15 per thousand instead of 15 per ten thousand
PlatformFeePerThousand(escrowAmount) == (escrowAmount * 15) \div 1000

\* (escrowAmount * 15) / 10000
PlatformFee(escrowAmount) == (escrowAmount * 15) \div 10000

\* escrowAmount - platformFee
FarmerPayment(escrowAmount) == escrowAmount - PlatformFee(escrowAmount)

\* no check of the caller at all
AnyoneAuthorized(caller, id) == TRUE

\* require(caller is the buyer or an admin)
PaymentAuthorized(caller, id) ==
    caller = SalesContractAt(id).buyer \/ HasRole(agriRoles, "ADMIN_ROLE", caller)

\* the modifier, the five require statements, the checked multiplication, and
\* the require on the result of the low-level call, which fails at once when
\* the contract holds less than the value it sends
ProcessPaymentRevert(caller, id) ==
    IF reentrancyStatus = ENTERED THEN ReentrantCall
    ELSE IF ~PaymentAuthorized(caller, id) THEN "Unauthorized"
    ELSE IF ~SalesContractAt(id).deliveryConfirmed THEN "Delivery not confirmed"
    ELSE IF ~SalesContractAt(id).qualityVerified THEN "Quality not verified"
    ELSE IF SalesContractAt(id).completed THEN "Already completed"
    ELSE IF ~(SalesContractAt(id).escrowAmount > 0) THEN "No escrow"
    ELSE IF SalesContractAt(id).escrowAmount * 15 > MaxUint THEN PanicOverflow
    ELSE IF agriBalance < FarmerPayment(SalesContractAt(id).escrowAmount)
         THEN "Payment failed"
    ELSE ""

PaymentProcessed(id, farmer, amount) ==
    [name |-> "PaymentProcessed", id |-> id, who |-> farmer, amount |-> amount]

\* lines 223-240: up to the point where the farmer's account has received the
\* value and runs; the call has not returned yet
\* what a processPayment that passes its requires does up to its transfer
ProcessPaymentEffects(caller, id) ==
    LET c == SalesContractAt(id)
        farmerPayment == FarmerPayment(c.escrowAmount)
    IN  /\ CanEmit(agriEvents, PaymentProcessed(id, c.farmer, farmerPayment))
        /\ saved' = Snapshot
        /\ reentrancyStatus' = ENTERED
        /\ salesContracts' =
               Put(salesContracts, id, [c EXCEPT !.completed = TRUE])
        /\ agriBalance' = agriBalance - farmerPayment
        /\ wallet' = [wallet EXCEPT ![c.farmer] = @ + farmerPayment]
        /\ frame' = [op |-> "processPayment", id |-> id, caller |-> caller,
                     to |-> c.farmer, amount |-> farmerPayment]
        /\ UNCHANGED <<now, agriRoles, harvests, insurancePolicies,
                       farmerHarvests, agriEvents, agriCalls, lastPayment,
                       lastRevert, orchVars, sustVars, healthVars, fileVars,
                       retryTask>>

ProcessPayment(caller, id) ==
    /\ CallerOK(caller)
    /\ IF ProcessPaymentRevert(caller, id) = ""
       THEN ProcessPaymentEffects(caller, id) /\ flow' = flow
       ELSE UNCHANGED vars

\* the state a revert of the transaction in progress leaves
RevertTransaction ==
    /\ wallet' = saved.wallet
    /\ agriRoles' = saved.agriRoles
    /\ harvests' = saved.harvests
    /\ salesContracts' = saved.salesContracts
    /\ insurancePolicies' = saved.insurancePolicies
    /\ farmerHarvests' = saved.farmerHarvests
    /\ agriBalance' = saved.agriBalance
    /\ agriEvents' = saved.agriEvents
    /\ agriCalls' = saved.agriCalls
    /\ lastPayment' = saved.lastPayment
    /\ reentrancyStatus' = NOT_ENTERED
    /\ frame' = NoFrame
    /\ saved' = NoSnapshot
    /\ UNCHANGED <<now, orchVars, sustVars, healthVars, svcVars>>

\* a failed call that is not followed by a revert: the call in progress ends
\* and the storage stays as the call left it
KeepStateOnFailure ==
    /\ lastRevert' = "Payment failed"
    /\ reentrancyStatus' = NOT_ENTERED
    /\ frame' = NoFrame
    /\ saved' = NoSnapshot
    /\ UNCHANGED <<now, wallet, agriRoles, harvests, salesContracts,
                   insurancePolicies, farmerHarvests, agriBalance, agriEvents,
                   agriCalls, lastPayment, orchVars, sustVars, healthVars, svcVars>>

\* require(success, "Payment failed") when the low-level call returned false
PaymentCallFailed == RevertTransaction /\ lastRevert' = "Payment failed"

\* lines 240-249: the low-level call returns; success is false when the
\* farmer's account rejects the payment
ProcessPaymentReturn(success) ==
    /\ frame.op = "processPayment"
    /\ IF success
       THEN /\ agriEvents' =
                   Emit(agriEvents, PaymentProcessed(frame.id, frame.to, frame.amount))
            /\ lastPayment' = frame.amount
            /\ reentrancyStatus' = NOT_ENTERED
            /\ frame' = NoFrame
            /\ saved' = NoSnapshot
            /\ UNCHANGED <<now, wallet, agriRoles, harvests, salesContracts,
                           insurancePolicies, farmerHarvests, agriBalance,
                           agriCalls, lastRevert, orchVars, sustVars, healthVars, svcVars>>
       ELSE PaymentCallFailed

-----------------------------------------------------------------------------
(* AgricultureContract.createInsurancePolicy *)

\* the least number of days whose length in seconds does not fit a uint256
HugeDuration == MaxUint \div SecondsPerDay + 1

\* the least insured value whose fourfold does not fit a uint256
HugeInsuredValue == MaxUint \div 4 + 1

InsuredValues == {0, 1010, HugeInsuredValue}
Coverages == {0, 1, 100, 101}
Durations == {0, 1, HugeDuration}
PremiumValues == {39, 40, 400, MaxUint}

\* a premium of 4 per thousand instead of 4 per hundred
PremiumPerThousand(insuredValue) == (insuredValue * 4) \div 1000

\* (_insuredValue * 4) / 100
RequiredPremium(insuredValue) == (insuredValue * 4) \div 100

PolicyId(sender, cropType, timestamp) ==
    Keccak(<<"policy", sender, cropType, timestamp>>)

\* the three require statements and the checked arithmetic, in source order
CreateInsurancePolicyRevert(insuredValue, coverage, durationDays, value) ==
    IF ~(insuredValue > 0) THEN "Invalid insured value"
    ELSE IF ~(coverage > 0 /\ coverage <= 100) THEN "Invalid coverage"
    ELSE IF insuredValue * 4 > MaxUint THEN PanicOverflow
    ELSE IF ~(value >= RequiredPremium(insuredValue)) THEN "Insufficient premium"
    ELSE IF durationDays * SecondsPerDay > MaxUint THEN PanicOverflow
    ELSE IF now + durationDays * SecondsPerDay > MaxUint THEN PanicOverflow
    ELSE ""

InsurancePolicyCreated(id, farmer, insuredValue) ==
    [name |-> "InsurancePolicyCreated", id |-> id, who |-> farmer,
     amount |-> insuredValue]

\* msg.value moves from the caller to the contract with the call
CreateInsurancePolicy(caller, cropType, insuredValue, coverage, durationDays, value) ==
    LET id == PolicyId(caller, cropType, now)
        ev == InsurancePolicyCreated(id, caller, insuredValue)
    IN  /\ CallerOK(caller)
        /\ wallet[caller] >= value
        /\ IF CreateInsurancePolicyRevert(insuredValue, coverage, durationDays,
                                          value) = ""
           THEN /\ CanEmit(agriEvents, ev)
                /\ \/ id \in DOMAIN insurancePolicies
                   \/ Cardinality(DOMAIN insurancePolicies) < MaxPolicies
                /\ insurancePolicies' = Put(insurancePolicies, id,
                       [policyId |-> id, farmer |-> caller, cropType |-> cropType,
                        insuredValue |-> insuredValue,
                        premium |-> RequiredPremium(insuredValue),
                        coveragePercentage |-> coverage, active |-> TRUE,
                        startDate |-> now,
                        endDate |-> now + durationDays * SecondsPerDay])
                /\ wallet' = [wallet EXCEPT ![caller] = @ - value]
                /\ agriBalance' = agriBalance + value
                /\ agriEvents' = Emit(agriEvents, ev)
                /\ UNCHANGED <<now, agriRoles, harvests, salesContracts,
                               farmerHarvests, agriCalls, reentrancyStatus, frame,
                               saved, lastPayment, lastRevert, orchVars, sustVars, healthVars, svcVars>>
           ELSE UNCHANGED vars

-----------------------------------------------------------------------------
(* AgricultureContract.processInsurancePayout *)

PolicyIds == DOMAIN insurancePolicies \cup {UnknownId}
PayoutPercentages == {0, 50, 100, 101}

\* a division by 1000 instead of 10000
PayoutPerThousand(policy, payoutPercentage) ==
    (policy.insuredValue * policy.coveragePercentage * payoutPercentage) \div 1000

\* (insuredValue * coveragePercentage * _payoutPercentage) / 10000
PayoutAmount(policy, payoutPercentage) ==
    (policy.insuredValue * policy.coveragePercentage * payoutPercentage) \div 10000

\* a payout that is refused from the end date on instead of after it
ProcessInsurancePayoutRevertFromEnd(caller, id, payoutPercentage) ==
    IF ~HasRole(agriRoles, "VERIFIER_ROLE", caller) THEN MissingRole
    ELSE IF reentrancyStatus = ENTERED THEN ReentrantCall
    ELSE IF ~PolicyAt(id).active THEN "Policy not active"
    ELSE IF ~(now < PolicyAt(id).endDate) THEN "Policy expired"
    ELSE IF ~(payoutPercentage <= 100) THEN "Invalid payout"
    ELSE IF PolicyAt(id).insuredValue * PolicyAt(id).coveragePercentage
                * payoutPercentage > MaxUint THEN PanicOverflow
    ELSE IF agriBalance < PayoutAmount(PolicyAt(id), payoutPercentage)
         THEN "Payout failed"
    ELSE ""

\* the two modifiers, the three require statements, the checked
\* multiplication, and the require on the result of the low-level call
ProcessInsurancePayoutRevert(caller, id, payoutPercentage) ==
    IF ~HasRole(agriRoles, "VERIFIER_ROLE", caller) THEN MissingRole
    ELSE IF reentrancyStatus = ENTERED THEN ReentrantCall
    ELSE IF ~PolicyAt(id).active THEN "Policy not active"
    ELSE IF ~(now <= PolicyAt(id).endDate) THEN "Policy expired"
    ELSE IF ~(payoutPercentage <= 100) THEN "Invalid payout"
    ELSE IF PolicyAt(id).insuredValue * PolicyAt(id).coveragePercentage
                * payoutPercentage > MaxUint THEN PanicOverflow
    ELSE IF agriBalance < PayoutAmount(PolicyAt(id), payoutPercentage)
         THEN "Payout failed"
    ELSE ""

InsurancePayoutProcessed(id, farmer, amount) ==
    [name |-> "InsurancePayoutProcessed", id |-> id, who |-> farmer,
     amount |-> amount]

\* lines 299-310: up to the point where the farmer's account has received the
\* value and runs
ProcessInsurancePayout(caller, id, payoutPercentage) ==
    LET policy == PolicyAt(id)
        payoutAmount == PayoutAmount(policy, payoutPercentage)
    IN  /\ CallerOK(caller)
        /\ IF ProcessInsurancePayoutRevert(caller, id, payoutPercentage) = ""
           THEN /\ CanEmit(agriEvents,
                           InsurancePayoutProcessed(id, policy.farmer, payoutAmount))
                /\ saved' = Snapshot
                /\ reentrancyStatus' = ENTERED
                /\ insurancePolicies' =
                       Put(insurancePolicies, id, [policy EXCEPT !.active = FALSE])
                /\ agriBalance' = agriBalance - payoutAmount
                /\ wallet' = [wallet EXCEPT ![policy.farmer] = @ + payoutAmount]
                /\ frame' = [op |-> "processInsurancePayout", id |-> id,
                             caller |-> caller, to |-> policy.farmer,
                             amount |-> payoutAmount,
                             payoutPercentage |-> payoutPercentage]
                /\ UNCHANGED <<now, agriRoles, harvests, salesContracts,
                               farmerHarvests, agriEvents, agriCalls, lastPayment,
                               lastRevert, orchVars, sustVars, healthVars, svcVars>>
           ELSE UNCHANGED vars

\* require(success, "Payout failed") when the low-level call returned false
PayoutCallFailed == RevertTransaction /\ lastRevert' = "Payout failed"

\* lines 310-313: the low-level call returns; success is false when the
\* farmer's account rejects the payout
ProcessInsurancePayoutReturn(success) ==
    /\ frame.op = "processInsurancePayout"
    /\ IF success
       THEN /\ agriEvents' = Emit(agriEvents,
                   InsurancePayoutProcessed(frame.id, frame.to, frame.amount))
            /\ reentrancyStatus' = NOT_ENTERED
            /\ frame' = NoFrame
            /\ saved' = NoSnapshot
            /\ UNCHANGED <<now, wallet, agriRoles, harvests, salesContracts,
                           insurancePolicies, farmerHarvests, agriBalance,
                           agriCalls, lastPayment, lastRevert, orchVars, sustVars, healthVars, svcVars>>
       ELSE PayoutCallFailed

-----------------------------------------------------------------------------
(* Time *)

\* a later block: block.timestamp grows; no block is mined while a call runs
Tick ==
    /\ frame = NoFrame
    /\ now < StartTime + MaxTicks * SecondsPerDay
    /\ now' = now + SecondsPerDay
    /\ UNCHANGED <<wallet, agriVars, orchVars, sustVars, healthVars, svcVars>>

-----------------------------------------------------------------------------
(* HederaOpsOrchestrator: storage *)

\* an orchestrator event: name, the indexed argument, and the other arguments
OrchEvent(name, id, who, x, y) ==
    [name |-> name, id |-> id, who |-> who, x |-> x, y |-> y]

EmptyEntity ==
    [wallet |-> ZeroAddress, entityType |-> "FARMER", activeModules |-> <<>>,
     reputationScore |-> 0, verified |-> FALSE, created |-> 0,
     totalTransactions |-> 0]

EntityAt(a) == IF a \in DOMAIN entities THEN entities[a] ELSE EmptyEntity

\* reputationScore: 500, // Starting score
StartingScore == 500
\* entity.reputationScore = 1000; // Cap at 1000
ReputationCap == 1000

OrchInit ==
    /\ orchRoles = [DEFAULT_ADMIN_ROLE |-> {Deployer}, ADMIN_ROLE |-> {Deployer},
                    MODULE_ROLE |-> {}, VERIFIER_ROLE |-> {}]
    /\ entities = <<>>
    /\ modules = [healthcareModule |-> ZeroAddress,
                  agricultureModule |-> ZeroAddress,
                  supplyChainModule |-> ZeroAddress,
                  sustainabilityModule |-> ZeroAddress]
    /\ paused = FALSE
    /\ orchEvents = EmptyBag
    /\ transactions = <<>>

-----------------------------------------------------------------------------
(* HederaOpsOrchestrator.registerEntity *)

EntityTypes == {"FARMER"}
ModuleLists == {<<>>, <<"agriculture">>}

\* a registration that does not look for an entity of the caller
RegisterEntityRevertUnlessEmpty(caller, moduleList) ==
    IF paused THEN "Pausable: paused"
    ELSE IF ~(Len(moduleList) > 0) THEN "No modules specified"
    ELSE ""

\* the modifier and the two require statements
RegisterEntityRevert(caller, moduleList) ==
    IF paused THEN "Pausable: paused"
    ELSE IF ~(EntityAt(caller).wallet = ZeroAddress) THEN "Entity exists"
    ELSE IF ~(Len(moduleList) > 0) THEN "No modules specified"
    ELSE ""

EntityRegistered(account, entityType, timestamp) ==
    OrchEvent("EntityRegistered", account, entityType, timestamp, 0)

RegisterEntity(caller, entityType, moduleList) ==
    IF RegisterEntityRevert(caller, moduleList) = ""
    THEN /\ entities' = Put(entities, caller,
                [wallet |-> caller, entityType |-> entityType,
                 activeModules |-> moduleList, reputationScore |-> StartingScore,
                 verified |-> FALSE, created |-> now, totalTransactions |-> 0])
         /\ orchEvents' = Emit(orchEvents, EntityRegistered(caller, entityType, now))
         /\ UNCHANGED <<now, wallet, agriVars, sustVars, healthVars, svcVars, transactions, orchRoles, modules, paused>>
    ELSE UNCHANGED vars

-----------------------------------------------------------------------------
(* HederaOpsOrchestrator.setModuleAddress *)

ModuleNames == {"agriculture", "sustainability", "logistics"}
ModuleAddresses == {ZeroAddress, "alice"}

\* the storage variable the name selects; "" for a name that is none of the four
ModuleField(moduleName) ==
    CASE moduleName = "healthcare" -> "healthcareModule"
      [] moduleName = "agriculture" -> "agricultureModule"
      [] moduleName = "supply_chain" -> "supplyChainModule"
      [] moduleName = "sustainability" -> "sustainabilityModule"
      [] OTHER -> ""

SetModuleAddressRevert(caller, moduleName, moduleAddress) ==
    IF ~HasRole(orchRoles, "ADMIN_ROLE", caller) THEN MissingRole
    ELSE IF ~(moduleAddress # ZeroAddress) THEN "Invalid address"
    ELSE IF ModuleField(moduleName) = "" THEN "Unknown module"
    ELSE ""

ModuleUpdated(moduleName, newAddress) ==
    OrchEvent("ModuleUpdated", moduleName, newAddress, 0, 0)

SetModuleAddress(caller, moduleName, moduleAddress) ==
    IF SetModuleAddressRevert(caller, moduleName, moduleAddress) = ""
    THEN /\ CanEmit(orchEvents, ModuleUpdated(moduleName, moduleAddress))
         /\ modules' = [modules EXCEPT ![ModuleField(moduleName)] = moduleAddress]
         /\ orchRoles' = [orchRoles EXCEPT !["MODULE_ROLE"] = @ \cup {moduleAddress}]
         /\ orchEvents' = Emit(orchEvents, ModuleUpdated(moduleName, moduleAddress))
         /\ UNCHANGED <<now, wallet, agriVars, sustVars, healthVars, svcVars, transactions, entities, paused>>
    ELSE UNCHANGED vars

-----------------------------------------------------------------------------
(* HederaOpsOrchestrator.updateReputation *)

\* int256 _change: both ends of the type, zero, and steps that cross both caps
Deltas == {IntMin, -IntMax, -600, 0, 600, IntMax}

\* the branch of lines 700-712 without the assignment of line 703
UncappedScore(oldScore, change) ==
    IF change > 0 THEN oldScore + change
    ELSE IF -change >= oldScore THEN 0 ELSE oldScore - (-change)

\* lines 700-712: the score the function stores
NewScore(oldScore, change) ==
    IF change > 0
    THEN IF oldScore + change > ReputationCap THEN ReputationCap
         ELSE oldScore + change
    ELSE LET decrease == -change
         IN  IF decrease >= oldScore THEN 0 ELSE oldScore - decrease

\* the modifier, the require statement and the checked arithmetic: += on
\* uint256, and the negation of an int256, which has no result for
\* type(int256).min
UpdateReputationRevert(caller, entity, change) ==
    IF ~HasRole(orchRoles, "MODULE_ROLE", caller) THEN MissingRole
    ELSE IF ~(EntityAt(entity).wallet # ZeroAddress) THEN "Entity not found"
    ELSE IF change > 0 /\ EntityAt(entity).reputationScore + change > MaxUint
         THEN PanicOverflow
    ELSE IF ~(change > 0) /\ -change > IntMax THEN PanicOverflow
    ELSE ""

ReputationUpdated(entity, oldScore, newScore) ==
    OrchEvent("ReputationUpdated", entity, entity, oldScore, newScore)

UpdateReputation(caller, entity, change) ==
    LET oldScore == EntityAt(entity).reputationScore
        ev == ReputationUpdated(entity, oldScore, NewScore(oldScore, change))
    IN  IF UpdateReputationRevert(caller, entity, change) = ""
        THEN /\ CanEmit(orchEvents, ev)
             /\ entities' = Put(entities, entity,
                    [EntityAt(entity) EXCEPT
                        !.reputationScore = NewScore(oldScore, change)])
             /\ orchEvents' = Emit(orchEvents, ev)
             /\ UNCHANGED <<now, wallet, agriVars, sustVars, healthVars, svcVars, transactions, orchRoles, modules, paused>>
        ELSE UNCHANGED vars

-----------------------------------------------------------------------------
(* HederaOpsOrchestrator.pause, unpause *)

PauseRevert(caller) ==
    IF ~HasRole(orchRoles, "ADMIN_ROLE", caller) THEN MissingRole
    ELSE IF paused THEN "Pausable: paused"
    ELSE ""

Pause(caller) ==
    IF PauseRevert(caller) = ""
    THEN /\ paused' = TRUE
         /\ UNCHANGED <<now, wallet, agriVars, sustVars, healthVars, svcVars, transactions, orchRoles, entities, modules,
                        orchEvents>>
    ELSE UNCHANGED vars

UnpauseRevert(caller) ==
    IF ~HasRole(orchRoles, "ADMIN_ROLE", caller) THEN MissingRole
    ELSE IF ~paused THEN "Pausable: not paused"
    ELSE ""

Unpause(caller) ==
    IF UnpauseRevert(caller) = ""
    THEN /\ paused' = FALSE
         /\ UNCHANGED <<now, wallet, agriVars, sustVars, healthVars, svcVars, transactions, orchRoles, entities, modules,
                        orchEvents>>
    ELSE UNCHANGED vars

-----------------------------------------------------------------------------
(* HederaOpsOrchestrator: AccessControl.grantRole *)

OrchGrantRoleRevert(caller) ==
    IF ~HasRole(orchRoles, "DEFAULT_ADMIN_ROLE", caller) THEN MissingRole ELSE ""

OrchGrantRole(caller, role, account) ==
    IF OrchGrantRoleRevert(caller) = ""
    THEN /\ orchRoles' = [orchRoles EXCEPT ![role] = @ \cup {account}]
         /\ UNCHANGED <<now, wallet, agriVars, sustVars, healthVars, svcVars, transactions, entities,
                        modules, paused, orchEvents>>
    ELSE UNCHANGED vars

-----------------------------------------------------------------------------
(* HederaOpsOrchestrator.verifyEntity *)

\* a verification that does not look at the verified flag
VerifyEntityRevertUnlessFound(caller, entity) ==
    IF ~HasRole(orchRoles, "VERIFIER_ROLE", caller) THEN MissingRole
    ELSE IF ~(EntityAt(entity).wallet # ZeroAddress) THEN "Entity not found"
    ELSE ""

VerifyEntityRevert(caller, entity) ==
    IF ~HasRole(orchRoles, "VERIFIER_ROLE", caller) THEN MissingRole
    ELSE IF ~(EntityAt(entity).wallet # ZeroAddress) THEN "Entity not found"
    ELSE IF EntityAt(entity).verified THEN "Already verified"
    ELSE ""

EntityVerified(account, timestamp) ==
    OrchEvent("EntityVerified", account, account, timestamp, 0)

VerifyEntity(caller, entity) ==
    IF VerifyEntityRevert(caller, entity) = ""
    THEN /\ CanEmit(orchEvents, EntityVerified(entity, now))
         /\ entities' = Put(entities, entity,
                            [EntityAt(entity) EXCEPT !.verified = TRUE])
         /\ orchEvents' = Emit(orchEvents, EntityVerified(entity, now))
         /\ UNCHANGED <<now, wallet, agriVars, sustVars, healthVars, svcVars, transactions, orchRoles,
                        modules, paused>>
    ELSE UNCHANGED vars

-----------------------------------------------------------------------------
(* HederaOpsOrchestrator.createCrossModuleTransaction *)

\* stored cross-module transactions
MaxTransactions == 2

\* enum TransactionStatus
Statuses == {"PENDING", "PROCESSING", "COMPLETED", "FAILED", "CANCELLED"}

\* the record a key that was never written reads as: every field zero, and
\* zero is the first member of the enum
EmptyTransaction ==
    [txId |-> <<>>, initiator |-> ZeroAddress, involvedModules |-> <<>>,
     status |-> "PENDING", timestamp |-> 0, value |-> 0]

TransactionAt(txId) ==
    IF txId \in DOMAIN transactions THEN transactions[txId] ELSE EmptyTransaction

TxValues == {0, 7}

TransactionId(sender, timestamp, moduleList, value) ==
    Keccak(<<"transaction", sender, timestamp, moduleList, value>>)

\* a creation that does not look at the verified flag
CreateCrossModuleTransactionRevertUnlessEmpty(caller, moduleList) ==
    IF paused THEN "Pausable: paused"
    ELSE IF ~(Len(moduleList) > 0) THEN "No modules specified"
    ELSE ""

\* createCrossModuleTransaction without the whenNotPaused modifier
CreateCrossModuleTransactionRevertWhilePaused(caller, moduleList) ==
    IF ~EntityAt(caller).verified THEN "Entity not verified"
    ELSE IF ~(Len(moduleList) > 0) THEN "No modules specified"
    ELSE ""

CreateCrossModuleTransactionRevert(caller, moduleList) ==
    IF paused THEN "Pausable: paused"
    ELSE IF ~EntityAt(caller).verified THEN "Entity not verified"
    ELSE IF ~(Len(moduleList) > 0) THEN "No modules specified"
    ELSE ""

\* the bytes32 id as an event logs it: a string, as the entity events are
\* indexed by strings
TxKey(txId) == ToString(txId)

\* event CrossModuleTransactionCreated(txId, initiator, modules, value); the
\* modules are part of the id
CrossModuleTransactionCreated(txId, initiator, moduleList, value) ==
    OrchEvent("CrossModuleTransactionCreated", TxKey(txId), initiator, value, 0)

CreateCrossModuleTransaction(caller, moduleList, value) ==
    LET txId == TransactionId(caller, now, moduleList, value)
        ev == CrossModuleTransactionCreated(txId, caller, moduleList, value)
    IN  IF CreateCrossModuleTransactionRevert(caller, moduleList) = ""
        THEN /\ CanEmit(orchEvents, ev)
             /\ \/ txId \in DOMAIN transactions
                \/ Cardinality(DOMAIN transactions) < MaxTransactions
             /\ transactions' = Put(transactions, txId,
                    [txId |-> txId, initiator |-> caller,
                     involvedModules |-> moduleList, status |-> "PENDING",
                     timestamp |-> now, value |-> value])
             /\ orchEvents' = Emit(orchEvents, ev)
             /\ UNCHANGED <<now, wallet, agriVars, sustVars, healthVars, svcVars, orchRoles, entities,
                            modules, paused>>
        ELSE UNCHANGED vars

-----------------------------------------------------------------------------
(* HederaOpsOrchestrator.completeCrossModuleTransaction *)

TxIds == DOMAIN transactions \cup {UnknownId}

\* a completion that accepts a pending transaction too
StatusRevertUnlessStarted(status) ==
    IF ~(status = "PROCESSING" \/ status = "PENDING") THEN "Invalid status" ELSE ""

\* require(txn.status == TransactionStatus.PROCESSING, "Invalid status")
StatusRevert(status) ==
    IF ~(status = "PROCESSING") THEN "Invalid status" ELSE ""

\* the modifier, the require statement and the checked increment
CompleteCrossModuleTransactionRevert(caller, txId) ==
    IF ~HasRole(orchRoles, "MODULE_ROLE", caller) THEN MissingRole
    ELSE IF StatusRevert(TransactionAt(txId).status) # ""
         THEN StatusRevert(TransactionAt(txId).status)
    ELSE IF EntityAt(TransactionAt(txId).initiator).totalTransactions + 1 > MaxUint
         THEN PanicOverflow
    ELSE ""

\* txn.status = TransactionStatus.COMPLETED, on the storage given
CompletedIn(txs, txId) ==
    [x \in DOMAIN txs |-> IF x = txId THEN [txs[x] EXCEPT !.status = "COMPLETED"]
                          ELSE txs[x]]

\* entities[txn.initiator].totalTransactions++, on the storage given
CountedIn(ents, initiator) ==
    [a \in DOMAIN ents \cup {initiator} |->
        IF a = initiator
        THEN [(IF a \in DOMAIN ents THEN ents[a] ELSE EmptyEntity)
                  EXCEPT !.totalTransactions = @ + 1]
        ELSE ents[a]]

CrossModuleTransactionCompleted(txId, timestamp) ==
    OrchEvent("CrossModuleTransactionCompleted", TxKey(txId), "", timestamp, 0)

CompleteCrossModuleTransaction(caller, txId) ==
    IF CompleteCrossModuleTransactionRevert(caller, txId) = ""
    THEN /\ CanEmit(orchEvents, CrossModuleTransactionCompleted(txId, now))
         /\ transactions' = CompletedIn(transactions, txId)
         /\ entities' = CountedIn(entities, TransactionAt(txId).initiator)
         /\ orchEvents' = Emit(orchEvents, CrossModuleTransactionCompleted(txId, now))
         /\ UNCHANGED <<now, wallet, agriVars, sustVars, healthVars, svcVars, orchRoles, modules, paused>>
    ELSE UNCHANGED vars

-----------------------------------------------------------------------------
(* HederaOpsOrchestrator.getEntity, getTransaction *)

\* a view function has no require statement: it returns for every argument
GetTransactionRevert(txId) == ""
GetTransaction(txId) == TransactionAt(txId)

-----------------------------------------------------------------------------
(* SustainabilityContract: storage *)

\* stored carbon credits
MaxCredits == 2

EmptyCarbonCredit ==
    [creditId |-> <<>>, entity |-> ZeroAddress, amount |-> 0, vintage |-> 0,
     projectType |-> "", verified |-> FALSE, retired |-> FALSE, timestamp |-> 0]

CreditAt(id) ==
    IF id \in DOMAIN carbonCredits THEN carbonCredits[id] ELSE EmptyCarbonCredit

NoAward == [id |-> <<>>]

SustInit ==
    /\ sustRoles = [DEFAULT_ADMIN_ROLE |-> {Deployer}, ADMIN_ROLE |-> {Deployer},
                    VERIFIER_ROLE |-> {}]
    /\ carbonCredits = <<>>
    /\ entityCarbonBalance = [a \in Addr |-> 0]
    /\ sustEvents = EmptyBag
    /\ lastAward = NoAward

-----------------------------------------------------------------------------
(* SustainabilityContract: AccessControl.grantRole *)

SustGrantRoleRevert(caller) ==
    IF ~HasRole(sustRoles, "DEFAULT_ADMIN_ROLE", caller) THEN MissingRole ELSE ""

SustGrantRole(caller, role, account) ==
    IF SustGrantRoleRevert(caller) = ""
    THEN /\ \/ account \in sustRoles[role]
            \/ Cardinality(sustRoles[role]) < MaxVerifiers
         /\ sustRoles' = [sustRoles EXCEPT ![role] = @ \cup {account}]
         /\ UNCHANGED <<now, wallet, agriVars, orchVars, healthVars, svcVars, carbonCredits,
                        entityCarbonBalance, sustEvents, lastAward>>
    ELSE UNCHANGED vars

-----------------------------------------------------------------------------
(* SustainabilityContract.awardCarbonCredits *)

CreditEntities == {"alice", "bob"}
CreditAmounts == {0, 5, MaxUint}
ProjectTypes == {"organic", "solar"}

\* keccak256(abi.encodePacked(_entity, _amount, block.timestamp))
CreditId(entity, amount, timestamp) ==
    Keccak(<<"credit", entity, amount, timestamp>>)

\* block.timestamp / 365 days + 1970
Vintage(timestamp) == timestamp \div (365 * SecondsPerDay) + 1970

\* the modifier and the checked arithmetic of lines 68 and 75
AwardCarbonCreditsRevert(caller, entity, amount) ==
    IF ~HasRole(sustRoles, "VERIFIER_ROLE", caller) THEN MissingRole
    ELSE IF Vintage(now) > MaxUint THEN PanicOverflow
    ELSE IF entityCarbonBalance[entity] + amount > MaxUint THEN PanicOverflow
    ELSE ""

SustEvent(name, id, amount, projectType, timestamp) ==
    [name |-> name, id |-> id, amount |-> amount, projectType |-> projectType,
     timestamp |-> timestamp]

CarbonCreditsAwarded(entity, amount, projectType) ==
    SustEvent("CarbonCreditsAwarded", entity, amount, projectType, 0)

AwardCarbonCredits(caller, entity, amount, projectType) ==
    LET creditId == CreditId(entity, amount, now)
        ev == CarbonCreditsAwarded(entity, amount, projectType)
    IN  IF AwardCarbonCreditsRevert(caller, entity, amount) = ""
        THEN /\ CanEmit(sustEvents, ev)
             /\ \/ creditId \in DOMAIN carbonCredits
                \/ Cardinality(DOMAIN carbonCredits) < MaxCredits
             /\ carbonCredits' = Put(carbonCredits, creditId,
                    [creditId |-> creditId, entity |-> entity, amount |-> amount,
                     vintage |-> Vintage(now), projectType |-> projectType,
                     verified |-> TRUE, retired |-> FALSE, timestamp |-> now])
             /\ entityCarbonBalance' =
                    [entityCarbonBalance EXCEPT ![entity] = @ + amount]
             /\ sustEvents' = Emit(sustEvents, ev)
             /\ lastAward' = [id |-> creditId, entity |-> entity,
                              before |-> entityCarbonBalance[entity]]
             /\ UNCHANGED <<now, wallet, agriVars, orchVars, healthVars, svcVars, sustRoles>>
        ELSE UNCHANGED vars

-----------------------------------------------------------------------------
(* SustainabilityContract.retireCredits *)

CreditIds == DOMAIN carbonCredits \cup {UnknownId}

\* a retirement that does not look at the retired flag
RetireCreditsRevertUnlessOwner(caller, creditId) ==
    IF ~(CreditAt(creditId).entity = caller) THEN "Not credit owner"
    ELSE IF entityCarbonBalance[caller] < CreditAt(creditId).amount
         THEN PanicOverflow
    ELSE ""

\* a retirement that does not look at the owner of the credit
RetireCreditsRevertUnlessRetired(caller, creditId) ==
    IF CreditAt(creditId).retired THEN "Already retired"
    ELSE IF entityCarbonBalance[caller] < CreditAt(creditId).amount
         THEN PanicOverflow
    ELSE ""

\* the two require statements and the checked subtraction
RetireCreditsRevert(caller, creditId) ==
    IF ~(CreditAt(creditId).entity = caller) THEN "Not credit owner"
    ELSE IF CreditAt(creditId).retired THEN "Already retired"
    ELSE IF entityCarbonBalance[caller] < CreditAt(creditId).amount
         THEN PanicOverflow
    ELSE ""

CarbonCreditsRetired(entity, amount, timestamp) ==
    SustEvent("CarbonCreditsRetired", entity, amount, "", timestamp)

RetireCredits(caller, creditId) ==
    LET credit == CreditAt(creditId)
        ev == CarbonCreditsRetired(caller, credit.amount, now)
    IN  IF RetireCreditsRevert(caller, creditId) = ""
        THEN /\ CanEmit(sustEvents, ev)
             /\ carbonCredits' = Put(carbonCredits, creditId,
                                     [credit EXCEPT !.retired = TRUE])
             /\ entityCarbonBalance' =
                    [entityCarbonBalance EXCEPT ![caller] = @ - credit.amount]
             /\ sustEvents' = Emit(sustEvents, ev)
             /\ lastAward' = NoAward
             /\ UNCHANGED <<now, wallet, agriVars, orchVars, healthVars, svcVars, sustRoles>>
        ELSE UNCHANGED vars

-----------------------------------------------------------------------------
(* HealthcareContract: storage *)

\* stored health insurance policies
MaxHealthPolicies == 2
\* stored visits
MaxVisits == 1

\* bytes32(0): what patientInsurance holds for a patient without a policy
ZeroId == <<>>

EmptyHealthInsurance ==
    [policyId |-> ZeroId, patient |-> ZeroAddress, planType |-> "",
     monthlyPremium |-> 0, coverageLimit |-> 0, autoDeduct |-> FALSE,
     paymentSource |-> ZeroAddress, active |-> FALSE, startDate |-> 0]

EmptyVisit ==
    [visitId |-> ZeroId, patient |-> ZeroAddress, facility |-> ZeroAddress,
     diagnosis |-> "", cost |-> 0, insuranceCovered |-> 0, patientPayment |-> 0,
     timestamp |-> 0]

HealthPolicyAt(id) ==
    IF id \in DOMAIN healthPolicies THEN healthPolicies[id] ELSE EmptyHealthInsurance

VisitAt(id) == IF id \in DOMAIN visits THEN visits[id] ELSE EmptyVisit

\* insurancePolicies[patientInsurance[_patient]]
CurrentPolicy(patient) == HealthPolicyAt(patientInsurance[patient])

HealthEvent(name, id, who, amount) ==
    [name |-> name, id |-> id, who |-> who, amount |-> amount]

HealthInit ==
    /\ healthRoles = [DEFAULT_ADMIN_ROLE |-> {Deployer}, ADMIN_ROLE |-> {Deployer},
                      PROVIDER_ROLE |-> {}]
    /\ healthPolicies = <<>>
    /\ patientInsurance = [a \in Addr |-> ZeroId]
    /\ visits = <<>>
    /\ healthEvents = EmptyBag

-----------------------------------------------------------------------------
(* HealthcareContract: AccessControl.grantRole *)

HealthGrantRoleRevert(caller) ==
    IF ~HasRole(healthRoles, "DEFAULT_ADMIN_ROLE", caller) THEN MissingRole ELSE ""

HealthGrantRole(caller, role, account) ==
    IF HealthGrantRoleRevert(caller) = ""
    THEN /\ \/ account \in healthRoles[role]
            \/ Cardinality(healthRoles[role]) < MaxVerifiers
         /\ healthRoles' = [healthRoles EXCEPT ![role] = @ \cup {account}]
         /\ UNCHANGED <<now, wallet, agriVars, orchVars, sustVars, svcVars, healthPolicies,
                        patientInsurance, visits, healthEvents>>
    ELSE UNCHANGED vars

-----------------------------------------------------------------------------
(* HealthcareContract.createInsurancePolicy *)

PlanTypes == {"basic", "family"}
MonthlyPremiums == {10}
CoverageLimits == {2500, MaxUint}
\* the accounts that take out a policy, and the patients that are visited
Insured == {"alice"}
Patients == {"alice", "bob"}

HealthPolicyId(sender, planType, timestamp) ==
    Keccak(<<"health", sender, planType, timestamp>>)

\* the function has no modifier and no require statement
CreateHealthPolicyRevert(caller) == ""

HealthPolicyCreated(id, patient, monthlyPremium) ==
    HealthEvent("InsurancePolicyCreated", id, patient, monthlyPremium)

CreateHealthPolicy(caller, planType, monthlyPremium, coverageLimit, autoDeduct) ==
    LET id == HealthPolicyId(caller, planType, now)
        ev == HealthPolicyCreated(id, caller, monthlyPremium)
    IN  IF CreateHealthPolicyRevert(caller) = ""
        THEN /\ CanEmit(healthEvents, ev)
             /\ \/ id \in DOMAIN healthPolicies
                \/ Cardinality(DOMAIN healthPolicies) < MaxHealthPolicies
             /\ healthPolicies' = Put(healthPolicies, id,
                    [policyId |-> id, patient |-> caller, planType |-> planType,
                     monthlyPremium |-> monthlyPremium,
                     coverageLimit |-> coverageLimit, autoDeduct |-> autoDeduct,
                     paymentSource |-> ZeroAddress, active |-> TRUE,
                     startDate |-> now])
             /\ patientInsurance' = [patientInsurance EXCEPT ![caller] = id]
             /\ healthEvents' = Emit(healthEvents, ev)
             /\ UNCHANGED <<now, wallet, agriVars, orchVars, sustVars, svcVars, healthRoles,
                            visits>>
        ELSE UNCHANGED vars

-----------------------------------------------------------------------------
(* HealthcareContract.deductPremium *)

DeductAmounts == {9, 10}

\* a deduction that does not look at autoDeduct
DeductPremiumRevertUnlessActive(patient, amount) ==
    IF ~CurrentPolicy(patient).active THEN "Policy not active"
    ELSE IF ~(amount >= CurrentPolicy(patient).monthlyPremium)
         THEN "Insufficient amount"
    ELSE ""

\* the three require statements
DeductPremiumRevert(patient, amount) ==
    IF ~CurrentPolicy(patient).active THEN "Policy not active"
    ELSE IF ~CurrentPolicy(patient).autoDeduct THEN "Auto-deduct not enabled"
    ELSE IF ~(amount >= CurrentPolicy(patient).monthlyPremium)
         THEN "Insufficient amount"
    ELSE ""

PremiumDeducted(id, patient, amount) ==
    HealthEvent("PremiumDeducted", id, patient, amount)

\* the function writes no storage: it emits the event and returns true
DeductPremium(caller, patient, amount) ==
    LET ev == PremiumDeducted(patientInsurance[patient], patient,
                              CurrentPolicy(patient).monthlyPremium)
    IN  IF DeductPremiumRevert(patient, amount) = ""
        THEN /\ CanEmit(healthEvents, ev)
             /\ healthEvents' = Emit(healthEvents, ev)
             /\ UNCHANGED <<now, wallet, agriVars, orchVars, sustVars, svcVars, healthRoles,
                            healthPolicies, patientInsurance, visits>>
        ELSE UNCHANGED vars

-----------------------------------------------------------------------------
(* HealthcareContract.recordVisit *)

\* the least cost whose eightyfold does not fit a uint256
HugeCost == MaxUint \div 80 + 1

Facilities == {"deployer"}
Diagnoses == {"flu"}
Costs == {0, 2500, 2501, HugeCost}

VisitId(patient, facility, timestamp) ==
    Keccak(<<"visit", patient, facility, timestamp>>)

\* the policy pays for the visit: policy.active && _cost <= policy.coverageLimit
Covers(policy, cost) == policy.active /\ cost <= policy.coverageLimit

\* a cover of 80 per thousand instead of 80 per hundred
InsuranceCoveredPerThousand(policy, cost) ==
    IF Covers(policy, cost) THEN (cost * 80) \div 1000 ELSE 0

\* lines 921-927: insuranceCovered
InsuranceCovered(policy, cost) ==
    IF Covers(policy, cost) THEN (cost * 80) \div 100 ELSE 0

\* lines 922-927: patientPayment
PatientPayment(policy, cost) == cost - InsuranceCovered(policy, cost)

\* the modifier and the checked multiplication of line 925
RecordVisitRevert(caller, patient, cost) ==
    IF ~HasRole(healthRoles, "PROVIDER_ROLE", caller) THEN MissingRole
    ELSE IF Covers(CurrentPolicy(patient), cost) /\ cost * 80 > MaxUint
         THEN PanicOverflow
    ELSE ""

VisitRecorded(id, patient, cost) == HealthEvent("VisitRecorded", id, patient, cost)

RecordVisit(caller, patient, facility, diagnosis, cost) ==
    LET id == VisitId(patient, facility, now)
        policy == CurrentPolicy(patient)
        ev == VisitRecorded(id, patient, cost)
    IN  IF RecordVisitRevert(caller, patient, cost) = ""
        THEN /\ CanEmit(healthEvents, ev)
             /\ id \in DOMAIN visits \/ Cardinality(DOMAIN visits) < MaxVisits
             /\ visits' = Put(visits, id,
                    [visitId |-> id, patient |-> patient, facility |-> facility,
                     diagnosis |-> diagnosis, cost |-> cost,
                     insuranceCovered |-> InsuranceCovered(policy, cost),
                     patientPayment |-> PatientPayment(policy, cost),
                     timestamp |-> now])
             /\ healthEvents' = Emit(healthEvents, ev)
             /\ UNCHANGED <<now, wallet, agriVars, orchVars, sustVars, svcVars, healthRoles,
                            healthPolicies, patientInsurance>>
        ELSE UNCHANGED vars

-----------------------------------------------------------------------------
(* HederaFileService (file-service.ts): splitIntoChunks, createFile,
   appendToFile. The ledger keeps the contents given to a file create
   transaction and extends them by the contents of every file append
   transaction; a transaction or its receipt can fail, which throws. *)

\* private readonly MAX_CHUNK_SIZE = 4096
MAX_CHUNK_SIZE == 4096

\* at most this many files are created
MaxFiles == 1

\* the largest content has this many full chunks and one byte more
MaxChunks == 2

NoTask == [pc |-> "idle"]

FileInit ==
    /\ files = <<>>
    /\ fileTask = NoTask

\* Math.min
Min(a, b) == IF a < b THEN a ELSE b

RECURSIVE Flatten(_)
\* the concatenation of the chunks in their order
Flatten(chunks) ==
    IF chunks = <<>> THEN <<>> ELSE Head(chunks) \o Flatten(Tail(chunks))

RECURSIVE SplitFromInclusive(_, _, _)
\* a split whose slices hold the byte at their end position as well
SplitFromInclusive(data, offset, chunks) ==
    IF offset < Len(data)
    THEN LET chunkSize == Min(MAX_CHUNK_SIZE, Len(data) - offset)
         IN  SplitFromInclusive(data, offset + chunkSize,
                 Append(chunks, SubSeq(data, offset + 1,
                                       Min(offset + chunkSize + 1, Len(data)))))
    ELSE chunks

RECURSIVE SplitFrom(_, _, _)
\* the while loop of splitIntoChunks: data.slice(offset, offset + chunkSize)
\* holds the bytes at the 0-based positions offset .. offset + chunkSize - 1
SplitFrom(data, offset, chunks) ==
    IF offset < Len(data)
    THEN LET chunkSize == Min(MAX_CHUNK_SIZE, Len(data) - offset)
         IN  SplitFrom(data, offset + chunkSize,
                       Append(chunks, SubSeq(data, offset + 1, offset + chunkSize)))
    ELSE chunks

\* splitIntoChunks(data)
SplitIntoChunks(data) == SplitFrom(data, 0, <<>>)

\* the lengths of the contents: one byte, and around every multiple of the
\* chunk size
FileLengths ==
    {1} \cup UNION {{k * MAX_CHUNK_SIZE - 1, k * MAX_CHUNK_SIZE, k * MAX_CHUNK_SIZE + 1} :
                       k \in 1..MaxChunks}

\* the byte patterns of the contents: the byte at a position depends on the
\* position with a period that does not divide the chunk size, so that
\* chunks in another order give another content
Strides == {1, 3, 5, 7, 11}

\* config.contents: a non-empty Uint8Array
Content(length, stride) == [i \in 1..length |-> (i * stride) % 251]

\* the id the ledger gives to the next file
NextFileId == <<"file", Cardinality(DOMAIN files) + 1>>

\* createFile up to the receipt of the file create transaction: the content is
\* split and the file is created with the first chunk; when the transaction
\* or its receipt fails the call throws
CreateFile(length, stride, success) ==
    /\ fileTask = NoTask
    /\ Cardinality(DOMAIN files) < MaxFiles
    /\ LET contents == Content(length, stride)
           chunks == SplitIntoChunks(contents)
       IN  IF success
           THEN /\ files' = Put(files, NextFileId, chunks[1])
                /\ fileTask' = [pc |-> "append", contents |-> contents,
                                chunks |-> chunks, i |-> 2, fileId |-> NextFileId]
           ELSE /\ fileTask' = [pc |-> "failed", contents |-> contents,
                                chunks |-> chunks, i |-> 1, fileId |-> <<>>]
                /\ UNCHANGED files
    /\ UNCHANGED <<now, wallet, agriVars, orchVars, sustVars, healthVars, retryTask, flow>>

\* appendToFile(fileId, contents): the contents are split again and every part
\* is appended by a transaction of its own; when the transaction numbered
\* done + 1 fails the call throws after the first done parts were appended
AppendedTo(stored, contents, done) ==
    stored \o Flatten(SubSeq(SplitIntoChunks(contents), 1, done))

\* one pass of the loop of createFile: appendToFile(fileId, chunks[i])
AppendToFile(success) ==
    /\ fileTask.pc = "append"
    /\ fileTask.i <= Len(fileTask.chunks)
    /\ LET chunk == fileTask.chunks[fileTask.i]
           parts == Len(SplitIntoChunks(chunk))
       IN  IF success
           THEN /\ files' = [files EXCEPT ![fileTask.fileId] = AppendedTo(@, chunk, parts)]
                /\ fileTask' = [fileTask EXCEPT !.i = @ + 1]
           ELSE \E done \in 0..(parts - 1) :
                    /\ files' = [files EXCEPT ![fileTask.fileId] = AppendedTo(@, chunk, done)]
                    /\ fileTask' = [fileTask EXCEPT !.pc = "failed"]
    /\ UNCHANGED <<now, wallet, agriVars, orchVars, sustVars, healthVars, retryTask, flow>>

\* return fileId, after the last chunk
CreateFileReturn ==
    /\ fileTask.pc = "append"
    /\ fileTask.i > Len(fileTask.chunks)
    /\ fileTask' = [fileTask EXCEPT !.pc = "returned"]
    /\ UNCHANGED <<now, wallet, agriVars, orchVars, sustVars, healthVars, retryTask, flow, files>>

-----------------------------------------------------------------------------
(* HederaSmartContractService (smart-contract-service.ts): retryOperation and
   the operations executeContract and queryContract run under it. Every await
   of a request to the ledger is a step of its own; the request is answered
   or fails with an error. *)

\* maxRetries of a call is at most this
MaxRetries == 3

\* delayMs of a call
Delays == {2000, 1}

\* an error as the catch block looks at it: the status words its message
\* holds, and its gRPC code (0 for an error without one)
Error(words, code) == [words |-> words, code |-> code]

\* lastError before any attempt failed: undefined
NoError == Error({"undefined"}, 0)

\* the errors of a request to the ledger
Errors ==
    {Error({"UNKNOWN"}, 0), Error({"UNAVAILABLE"}, 0),
     Error({"DEADLINE_EXCEEDED"}, 0), Error({}, 2), Error({}, 14),
     Error({"CONTRACT_REVERT_EXECUTED"}, 0), Error({}, 5)}

\* the answer to a request that did not fail
Success == Error({"SUCCESS"}, 0)

\* the outcomes of a request to the ledger
Outcomes == {Success} \cup Errors

\* a catch block that takes every error as retryable
EveryErrorRetryable(error) == TRUE

\* const isRetryable = error.message?.includes(...) || error.code === 2 ||
\* error.code === 14
IsRetryable(error) ==
    \/ "UNKNOWN" \in error.words
    \/ "UNAVAILABLE" \in error.words
    \/ "DEADLINE_EXCEEDED" \in error.words
    \/ error.code = 2
    \/ error.code = 14

\* the operations run under retryOperation: the one of executeContract and
\* the one of queryContract
OperationKinds == {"execute", "query"}

\* the first request of the operation
FirstStep(functionKind) == IF functionKind = "execute" THEN "execute" ELSE "query"

\* delayMs *= 1.5, the delay kept as a fraction <<numerator, denominator>>
Backoff(delay) == <<delay[1] * 3, delay[2] * 2>>

NoRetryTask == [pc |-> "idle"]

RetryInit == retryTask = NoRetryTask

\* retryOperation(operation, maxRetries, delayMs) up to the first request of
\* the first attempt; with maxRetries < 1 the loop is not entered and
\* lastError, undefined, is thrown
RetryOperation(functionKind, maxRetries, delayMs) ==
    /\ retryTask = NoRetryTask
    /\ retryTask' =
           [pc |-> IF 1 <= maxRetries THEN "attempt" ELSE "thrown",
            functionKind |-> functionKind, maxRetries |-> maxRetries,
            attempt |-> 1, delayMs |-> <<delayMs, 1>>,
            step |-> FirstStep(functionKind),
            calls |-> IF 1 <= maxRetries THEN 1 ELSE 0,
            submitted |-> 0, errors |-> <<>>, waits |-> <<>>,
            lastError |-> NoError]
    /\ UNCHANGED <<now, wallet, agriVars, orchVars, sustVars, healthVars, fileVars, flow>>

\* the catch block: the error is rethrown when it is not retryable or the
\* attempt was the last one, and otherwise the call waits delayMs
Caught(task, error) ==
    LET seen == [task EXCEPT !.lastError = error, !.errors = Append(@, error)]
    IN  IF ~IsRetryable(error) \/ task.attempt = task.maxRetries
        THEN [seen EXCEPT !.pc = "thrown"]
        ELSE [seen EXCEPT !.pc = "waiting", !.waits = Append(@, task.delayMs)]

\* the operation after a request was answered: executeContract submits the
\* ContractExecuteTransaction, gets its receipt and runs the ContractCallQuery
\* whose result it returns; queryContract runs the query only
Answered(task) ==
    CASE task.step = "execute" ->
             [task EXCEPT !.step = "receipt", !.submitted = @ + 1]
      [] task.step = "receipt" -> [task EXCEPT !.step = "query"]
      [] task.step = "query" -> [task EXCEPT !.pc = "returned"]

\* one request of the operation of the running attempt: it is answered, or
\* it fails and the catch block runs
OperationStep(outcome) ==
    /\ retryTask.pc = "attempt"
    /\ retryTask' = IF outcome = Success THEN Answered(retryTask)
                    ELSE Caught(retryTask, outcome)
    /\ UNCHANGED <<now, wallet, agriVars, orchVars, sustVars, healthVars, fileVars, flow>>

\* the timer fires: the delay grows and the next attempt starts
RetryAfterDelay ==
    /\ retryTask.pc = "waiting"
    /\ retryTask' =
           [retryTask EXCEPT !.delayMs = Backoff(@), !.attempt = @ + 1,
                             !.pc = IF retryTask.attempt + 1 <= retryTask.maxRetries
                                    THEN "attempt" ELSE "thrown",
                             !.calls = IF retryTask.attempt + 1 <= retryTask.maxRetries
                                       THEN @ + 1 ELSE @,
                             !.step = FirstStep(retryTask.functionKind)]
    /\ UNCHANGED <<now, wallet, agriVars, orchVars, sustVars, healthVars, fileVars, flow>>

-----------------------------------------------------------------------------
(* HederaOpsWorkflow (workflow.ts): run(), recordHarvestWorkflow and        *)
(* salesContractWorkflow.  Every contract call is a transaction signed by   *)
(* the operator of the client; executeContract fetches the record of the    *)
(* transaction, which throws when the contract reverted, and the exception  *)
(* ends run() in its catch block.                                           *)

\* the client's operator deployed the contracts and signs every transaction
Operator == Deployer

\* harvestData.quantity and the quantity sold, pricePerUnit in cents (scaled)
WorkflowQuantity == 2
WorkflowPrice == 700
\* totalAmount, which is also the payable amount of the deposit
WorkflowTotal == WorkflowQuantity * WorkflowPrice

NoFlow == [pc |-> "idle", buyer |-> ZeroAddress, harvestId |-> UnknownId,
           contractId |-> UnknownId, error |-> ""]

WorkflowInit == flow = NoFlow

\* the catch block of run(): the error is logged and thrown again
Thrown(error) == [flow EXCEPT !.pc = "failed", !.error = error]

WorkflowFailed(error) ==
    /\ flow' = Thrown(error)
    /\ UNCHANGED <<now, wallet, agriVars, orchVars, sustVars, healthVars,
                   fileVars, retryTask>>

\* run() up to recordHarvestWorkflow; buyerId is an account of the network
Run(buyerId) ==
    /\ flow.pc = "idle"
    /\ flow' = [flow EXCEPT !.pc = "recordHarvest", !.buyer = buyerId]
    /\ UNCHANGED <<now, wallet, agriVars, orchVars, sustVars, healthVars,
                   fileVars, retryTask>>

\* recordHarvestWorkflow: coffee of grade 5, the id is read from the record
RecordHarvestWorkflow ==
    /\ flow.pc = "recordHarvest"
    /\ frame = NoFrame
    /\ IF RecordHarvestRevert(WorkflowQuantity, 5) = ""
       THEN /\ RecordHarvestEffects(Operator, "coffee", WorkflowQuantity, 5)
            /\ flow' = [flow EXCEPT !.pc = "createSalesContract",
                          !.harvestId = HarvestId(Operator, "coffee",
                                                  WorkflowQuantity, now)]
       ELSE WorkflowFailed(RecordHarvestRevert(WorkflowQuantity, 5))

\* salesContractWorkflow, first call: createSalesContract for buyerId
SalesContractWorkflowCreate ==
    LET reason == CreateSalesContractRevert(Operator, flow.buyer, flow.harvestId,
                                            WorkflowQuantity, WorkflowPrice)
    IN  /\ flow.pc = "createSalesContract"
        /\ frame = NoFrame
        /\ IF reason = ""
           THEN /\ CreateSalesContractEffects(MaxContracts, Operator, flow.buyer,
                       flow.harvestId, WorkflowQuantity, WorkflowPrice)
                /\ flow' = [flow EXCEPT !.pc = "depositEscrow",
                              !.contractId = SalesContractId(Operator, flow.buyer,
                                                             flow.harvestId, now)]
           ELSE WorkflowFailed(reason)

\* salesContractWorkflow, second call: the operator's own client deposits
\* totalAmount ("Simulate buyer depositing escrow")
SalesContractWorkflowDeposit ==
    LET reason == DepositEscrowRevert(Operator, flow.contractId, WorkflowTotal)
    IN  /\ flow.pc = "depositEscrow"
        /\ frame = NoFrame
        /\ IF wallet[Operator] < WorkflowTotal
           THEN WorkflowFailed("INSUFFICIENT_PAYER_BALANCE")
           ELSE IF reason = ""
           THEN /\ DepositEscrowEffects(Operator, flow.contractId, WorkflowTotal)
                /\ flow' = [flow EXCEPT !.pc = "processPayment"]
           ELSE WorkflowFailed(reason)

\* salesContractWorkflow, third call: delivery and quality are only logged,
\* then processPayment is sent
SalesContractWorkflowPay ==
    LET reason == ProcessPaymentRevert(Operator, flow.contractId)
    IN  /\ flow.pc = "processPayment"
        /\ frame = NoFrame
        /\ IF reason = ""
           THEN /\ ProcessPaymentEffects(Operator, flow.contractId)
                /\ flow' = [flow EXCEPT !.pc = "getRecord"]
           ELSE WorkflowFailed(reason)

\* the record of processPayment once the transaction has ended: the payment
\* when the contract is completed, the revert of the failed transfer otherwise
SalesContractWorkflowRecord ==
    /\ flow.pc = "getRecord"
    /\ frame = NoFrame
    /\ IF SalesContractAt(flow.contractId).completed
       THEN /\ flow' = [flow EXCEPT !.pc = "salesCompleted"]
            /\ UNCHANGED <<now, wallet, agriVars, orchVars, sustVars, healthVars,
                           fileVars, retryTask>>
       ELSE WorkflowFailed(lastRevert)
-----------------------------------------------------------------------------
(* Specifications *)

\* the state after the contracts are deployed by Deployer
Init ==
    /\ now = StartTime
    /\ wallet = [a \in Addr |-> InitialFunds]
    /\ AgriInit
    /\ OrchInit
    /\ SustInit
    /\ HealthInit
    /\ FileInit
    /\ RetryInit
    /\ WorkflowInit

\* harvests, sales contracts, escrow and payment, within one block
NextSales ==
    \/ \E caller \in Addr, account \in Addr :
          GrantRole(caller, "VERIFIER_ROLE", account)
    \/ \E caller \in Addr, cropType \in Crops, quantity \in HarvestQuantities,
          grade \in Grades :
          RecordHarvest(caller, cropType, quantity, grade)
    \/ \E caller \in Addr, buyer \in Buyers,
          harvestId \in DOMAIN harvests \cup {UnknownId},
          quantity \in SaleQuantities, pricePerUnit \in Prices :
          CreateSalesContract(caller, buyer, harvestId, quantity, pricePerUnit)
    \/ \E caller \in Addr, id \in ContractIds, value \in EscrowValues :
          DepositEscrow(caller, id, value)
    \/ \E caller \in Addr, id \in ContractIds :
          ConfirmDeliveryAndQuality(caller, id)
    \/ \E caller \in Addr, id \in ContractIds :
          ProcessPayment(caller, id)
    \/ \E success \in BOOLEAN :
          ProcessPaymentReturn(success)

SpecSales == Init /\ [][NextSales]_vars

\* crop insurance policies and payouts
NextInsurance ==
    \/ Tick
    \/ \E caller \in Addr, account \in Addr :
          GrantRole(caller, "VERIFIER_ROLE", account)
    \/ \E caller \in Addr, cropType \in Crops, insuredValue \in InsuredValues,
          coverage \in Coverages, durationDays \in Durations,
          value \in PremiumValues :
          CreateInsurancePolicy(caller, cropType, insuredValue, coverage,
                                durationDays, value)
    \/ \E caller \in Addr, id \in PolicyIds, payoutPercentage \in PayoutPercentages :
          ProcessInsurancePayout(caller, id, payoutPercentage)
    \/ \E success \in BOOLEAN :
          ProcessInsurancePayoutReturn(success)

SpecInsurance == Init /\ [][NextInsurance]_vars

\* the accounts of the scenario in which both transfers of the contract run
Farmers == {"alice"}
Verifiers == {"bob"}

\* sales and insurance together: one farmer who sells and insures, every
\* account calling, and the farmer's account accepting or rejecting each
\* transfer
NextAgriculture ==
    \/ \E caller \in Addr, account \in Verifiers :
          GrantRole(caller, "VERIFIER_ROLE", account)
    \/ \E caller \in Farmers, cropType \in Crops,
          quantity \in HarvestQuantities \ {0} :
          RecordHarvest(caller, cropType, quantity, 1)
    \/ \E caller \in Farmers, buyer \in Addr \ Farmers, harvestId \in DOMAIN harvests,
          pricePerUnit \in Prices :
          CreateSalesContract(caller, buyer, harvestId, 1, pricePerUnit)
    \/ \E caller \in Addr, id \in DOMAIN salesContracts, value \in Prices :
          DepositEscrow(caller, id, value)
    \/ \E caller \in Addr, id \in DOMAIN salesContracts :
          ConfirmDeliveryAndQuality(caller, id)
    \/ \E caller \in Addr, id \in DOMAIN salesContracts :
          ProcessPayment(caller, id)
    \/ \E success \in BOOLEAN :
          ProcessPaymentReturn(success)
    \/ \E caller \in Farmers, cropType \in Crops,
          insuredValue \in InsuredValues \ {0} :
          CreateInsurancePolicy(caller, cropType, insuredValue, 100, 1,
                                RequiredPremium(insuredValue))
    \/ \E caller \in Addr, id \in DOMAIN insurancePolicies :
          ProcessInsurancePayout(caller, id, 50)
    \/ \E success \in BOOLEAN :
          ProcessInsurancePayoutReturn(success)

SpecAgriculture == Init /\ [][NextAgriculture]_vars

\* harvests and the sales contracts created against them
NextCommitments ==
    \/ \E caller \in Addr, cropType \in Crops, quantity \in HarvestQuantities,
          grade \in Grades :
          RecordHarvest(caller, cropType, quantity, grade)
    \/ \E caller \in Addr, buyer \in Buyers,
          harvestId \in DOMAIN harvests \cup {UnknownId},
          quantity \in SaleQuantities \cup HarvestQuantities,
          pricePerUnit \in Prices :
          CreateSalesContractUpTo(MaxCommitments, caller, buyer, harvestId,
                                  quantity, pricePerUnit)

SpecCommitments == Init /\ [][NextCommitments]_vars

\* the entity registry of the orchestrator
NextOrchestrator ==
    \/ \E caller \in Addr, entityType \in EntityTypes, moduleList \in ModuleLists :
          RegisterEntity(caller, entityType, moduleList)
    \/ \E caller \in Addr, moduleName \in ModuleNames,
          moduleAddress \in ModuleAddresses :
          SetModuleAddress(caller, moduleName, moduleAddress)
    \/ \E caller \in Addr, entity \in Addr, change \in Deltas :
          UpdateReputation(caller, entity, change)
    \/ \E caller \in Addr : Pause(caller)
    \/ \E caller \in Addr : Unpause(caller)

SpecOrchestrator == Init /\ [][NextOrchestrator]_vars

\* entities, their verification and cross-module transactions
NextTransactions ==
    \/ \E caller \in Addr, account \in Verifiers :
          OrchGrantRole(caller, "VERIFIER_ROLE", account)
    \/ \E caller \in Addr, entityType \in EntityTypes, moduleList \in ModuleLists :
          RegisterEntity(caller, entityType, moduleList)
    \/ \E caller \in Addr, entity \in Addr :
          VerifyEntity(caller, entity)
    \/ \E caller \in Addr, moduleName \in {"agriculture"},
          moduleAddress \in ModuleAddresses :
          SetModuleAddress(caller, moduleName, moduleAddress)
    \/ \E caller \in Addr, moduleList \in ModuleLists, value \in TxValues :
          CreateCrossModuleTransaction(caller, moduleList, value)
    \/ \E caller \in Addr, txId \in TxIds :
          CompleteCrossModuleTransaction(caller, txId)
    \/ \E caller \in Addr : Pause(caller)
    \/ \E caller \in Addr : Unpause(caller)

SpecTransactions == Init /\ [][NextTransactions]_vars

\* carbon credits
NextSustainability ==
    \/ Tick
    \/ \E caller \in Addr, account \in Verifiers :
          SustGrantRole(caller, "VERIFIER_ROLE", account)
    \/ \E caller \in Addr, entity \in CreditEntities, amount \in CreditAmounts,
          projectType \in ProjectTypes :
          AwardCarbonCredits(caller, entity, amount, projectType)
    \/ \E caller \in Addr, creditId \in CreditIds :
          RetireCredits(caller, creditId)

SpecSustainability == Init /\ [][NextSustainability]_vars

\* health insurance policies, premium deductions and visits
NextHealthcare ==
    \/ \E caller \in Addr, account \in Verifiers :
          HealthGrantRole(caller, "PROVIDER_ROLE", account)
    \/ \E caller \in Insured, planType \in PlanTypes,
          monthlyPremium \in MonthlyPremiums, coverageLimit \in CoverageLimits,
          autoDeduct \in BOOLEAN :
          CreateHealthPolicy(caller, planType, monthlyPremium, coverageLimit,
                             autoDeduct)
    \/ \E caller \in Addr, patient \in Patients, amount \in DeductAmounts :
          DeductPremium(caller, patient, amount)
    \/ \E caller \in Addr, patient \in Patients, facility \in Facilities,
          diagnosis \in Diagnoses, cost \in Costs :
          RecordVisit(caller, patient, facility, diagnosis, cost)

SpecHealthcare == Init /\ [][NextHealthcare]_vars

\* the role-gated operations of the four contracts, called by every account:
\* deployer is the admin, bob is granted the roles, alice never holds one
NextRoles ==
    \/ \E caller \in Addr, account \in Verifiers :
          OrchGrantRole(caller, "VERIFIER_ROLE", account)
    \/ \E caller \in Farmers, entityType \in EntityTypes :
          RegisterEntity(caller, entityType, <<"agriculture">>)
    \/ \E caller \in Addr, entity \in Farmers :
          VerifyEntity(caller, entity)
    \/ \E caller \in Addr, moduleAddress \in Verifiers :
          SetModuleAddress(caller, "agriculture", moduleAddress)
    \/ \E caller \in Addr, entity \in Farmers :
          UpdateReputation(caller, entity, 600)
    \/ \E caller \in Addr :
          CompleteCrossModuleTransaction(caller, UnknownId)
    \/ \E caller \in Addr : Pause(caller)
    \/ \E caller \in Addr : Unpause(caller)
    \/ \E caller \in Addr, account \in Verifiers :
          GrantRole(caller, "VERIFIER_ROLE", account)
    \/ \E caller \in Farmers, cropType \in Crops :
          RecordHarvest(caller, cropType, 2, 1)
    \/ \E caller \in Farmers, harvestId \in DOMAIN harvests, pricePerUnit \in Prices :
          CreateSalesContract(caller, "bob", harvestId, 1, pricePerUnit)
    \/ \E caller \in Addr, id \in ContractIds :
          ConfirmDeliveryAndQuality(caller, id)
    \/ \E caller \in Addr, id \in PolicyIds :
          ProcessInsurancePayout(caller, id, 50)
    \/ \E caller \in Addr, account \in Verifiers :
          HealthGrantRole(caller, "PROVIDER_ROLE", account)
    \/ \E caller \in Addr, patient \in Farmers, facility \in Facilities,
          diagnosis \in Diagnoses :
          RecordVisit(caller, patient, facility, diagnosis, 2500)
    \/ \E caller \in Addr, account \in Verifiers :
          SustGrantRole(caller, "VERIFIER_ROLE", account)
    \/ \E caller \in Addr, entity \in Farmers, projectType \in {"organic"} :
          AwardCarbonCredits(caller, entity, 5, projectType)
    \/ \E caller \in Addr, creditId \in CreditIds :
          RetireCredits(caller, creditId)

SpecRoles == Init /\ [][NextRoles]_vars

\* the module addresses set and replaced by the admin, and the calls that
\* need module authority
NextModules ==
    \/ \E caller \in Addr, moduleName \in ModuleNames,
          moduleAddress \in Addr \cup {ZeroAddress} :
          SetModuleAddress(caller, moduleName, moduleAddress)
    \/ \E caller \in Farmers, entityType \in EntityTypes :
          RegisterEntity(caller, entityType, <<"agriculture">>)
    \/ \E caller \in Addr, entity \in Farmers, change \in {-600, 600} :
          UpdateReputation(caller, entity, change)
    \/ \E caller \in Addr, txId \in TxIds :
          CompleteCrossModuleTransaction(caller, txId)

SpecModules == Init /\ [][NextModules]_vars

\* one call of executeContract or queryContract, with every outcome of every
\* request to the ledger
NextRetry ==
    \/ \E functionKind \in OperationKinds, maxRetries \in 0..MaxRetries,
          delayMs \in Delays :
          RetryOperation(functionKind, maxRetries, delayMs)
    \/ \E outcome \in Outcomes : OperationStep(outcome)
    \/ RetryAfterDelay

SpecRetry == Init /\ [][NextRetry]_vars

\* every request to the ledger is answered or fails, and every timer fires
SpecRetryLive ==
    /\ Init
    /\ [][NextRetry]_vars
    /\ WF_vars(\E outcome \in Outcomes : OperationStep(outcome))
    /\ WF_vars(RetryAfterDelay)

\* the file service: one createFile call with every content
NextFiles ==
    \/ \E length \in FileLengths, stride \in Strides, success \in BOOLEAN :
          CreateFile(length, stride, success)
    \/ \E success \in BOOLEAN : AppendToFile(success)
    \/ CreateFileReturn

SpecFiles == Init /\ [][NextFiles]_vars

\* every operation of the contracts
\* the workflow run of an operator, next to the buyers and verifiers of the
\* network
NextWorkflow ==
    \/ \E buyerId \in Addr : Run(buyerId)
    \/ RecordHarvestWorkflow
    \/ SalesContractWorkflowCreate
    \/ SalesContractWorkflowDeposit
    \/ SalesContractWorkflowPay
    \/ SalesContractWorkflowRecord
    \/ \E caller \in Addr, account \in Addr :
          GrantRole(caller, "VERIFIER_ROLE", account)
    \/ \E caller \in Addr, id \in ContractIds :
          DepositEscrow(caller, id, WorkflowTotal)
    \/ \E caller \in Addr, id \in ContractIds :
          ConfirmDeliveryAndQuality(caller, id)
    \/ \E success \in BOOLEAN : ProcessPaymentReturn(success)
    \/ Tick

SpecWorkflow == Init /\ [][NextWorkflow]_vars

Next ==
    \/ NextSales
    \/ NextInsurance
    \/ NextOrchestrator
    \/ NextTransactions
    \/ NextSustainability
    \/ NextHealthcare
    \/ NextCommitments
    \/ NextRoles
    \/ NextModules
    \/ NextFiles
    \/ NextRetry
    \/ NextWorkflow

Spec == Init /\ [][Next]_vars

-----------------------------------------------------------------------------
(* Properties of processPayment (SpecSales) *)

\* the step in which processPayment sends the value to the farmer
PaymentStarts == frame.op = "none" /\ frame'.op = "processPayment"

\* the step in which processPayment returns to its caller
PaymentReturns ==
    /\ frame.op = "processPayment"
    /\ frame'.op = "none"
    /\ EventCount(agriEvents', "PaymentProcessed", frame.id)
           > EventCount(agriEvents, "PaymentProcessed", frame.id)

\* C1: for every sales contract id, processPayment completes at most once,
\* whatever operations are executed before, during and after it.
C1_PaidAtMostOnce ==
    \A id \in DOMAIN salesContracts :
        EventCount(agriEvents, "PaymentProcessed", id) <= 1

\* C2: a processPayment that succeeds on a contract with escrow E moves exactly
\* E - floor(E*15/10000) from the contract to the farmer and returns that value;
\* fee plus payment is E and the payment is at most E.
C2_ExactPayment ==
    [][/\ PaymentStarts =>
             LET c == SalesContractAt(frame'.id)
                 E == c.escrowAmount
                 fee == (E * 15) \div 10000
             IN  /\ frame'.to = c.farmer
                 /\ frame'.amount = E - fee
                 /\ wallet'[c.farmer] = wallet[c.farmer] + (E - fee)
                 /\ agriBalance' = agriBalance - (E - fee)
                 /\ fee + frame'.amount = E
                 /\ frame'.amount <= E
       /\ PaymentReturns =>
             /\ lastPayment' = frame.amount
             /\ wallet' = wallet
             /\ BagIn(PaymentProcessed(frame.id, frame.to, frame.amount),
                      agriEvents')]_vars

\* a payment of 699 for an escrow of 700 has been made and returned
C2_Witness ==
    /\ frame = NoFrame
    /\ lastPayment = 699
    /\ \E e \in BagToSet(agriEvents) :
          /\ e.name = "PaymentProcessed"
          /\ e.amount = 699
          /\ SalesContractAt(e.id).escrowAmount = 700

\* a payment for the id was sent to the farmer (the call may still be running)
PaymentReleased(id) ==
    \/ EventCount(agriEvents, "PaymentProcessed", id) >= 1
    \/ frame.op = "processPayment" /\ frame.id = id

\* C3: processPayment sends value only when its caller is the buyer or an
\* admin, delivery is confirmed, quality is verified, the contract is not
\* completed and the escrow is positive; and no payment is sent for an id
\* before confirmDeliveryAndQuality and a non-zero depositEscrow succeeded for
\* that id.
C3_PaymentGuards ==
    /\ [][PaymentStarts =>
             LET c == SalesContractAt(frame'.id)
             IN  /\ \/ frame'.caller = c.buyer
                    \/ frame'.caller \in agriRoles["ADMIN_ROLE"]
                 /\ c.deliveryConfirmed
                 /\ c.qualityVerified
                 /\ ~c.completed
                 /\ c.escrowAmount > 0]_vars
    /\ [](\A id \in DOMAIN salesContracts :
             PaymentReleased(id) =>
                 /\ <<"confirmDeliveryAndQuality", id, 0>> \in agriCalls
                 /\ \E call \in agriCalls :
                       call[1] = "depositEscrow" /\ call[2] = id /\ call[3] > 0)

\* an admin who is not the buyer has started a payment
C3_Witness ==
    /\ frame.op = "processPayment"
    /\ frame.caller # SalesContractAt(frame.id).buyer
    /\ frame.caller \in agriRoles["ADMIN_ROLE"]
    /\ frame.amount > 0
    /\ <<"confirmDeliveryAndQuality", frame.id, 0>> \in agriCalls

\* C5: no create operation is ever executed twice for one id: every harvest id
\* and every sales contract id is issued by at most one successful call.
C5_IdsNeverCollide ==
    /\ \A id \in DOMAIN harvests :
          EventCount(agriEvents, "HarvestRecorded", id) <= 1
    /\ \A id \in DOMAIN salesContracts :
          EventCount(agriEvents, "SalesContractCreated", id) <= 1

-----------------------------------------------------------------------------
(* Properties of failed transfers (SpecAgriculture) *)

\* the event a function emits when it succeeds
EventOf(op) ==
    IF op = "processPayment" THEN "PaymentProcessed" ELSE "InsurancePayoutProcessed"

\* a transaction makes its external call
TransferStarts == frame.op = "none" /\ frame'.op # "none"

\* the external call is running: the farmer's account makes a call or idles
TransferRuns == frame.op # "none" /\ frame'.op # "none"

\* the transaction in progress ends without the event of its success
TransferReverts ==
    /\ frame.op # "none"
    /\ frame'.op = "none"
    /\ EventCount(agriEvents', EventOf(frame.op), frame.id)
           <= EventCount(agriEvents, EventOf(frame.op), frame.id)

\* C4: when the transfer inside processPayment or processInsurancePayout
\* fails, every stored record and every balance is exactly what it was before
\* the call, whatever the farmer's account did during the call; the contract
\* is not completed (the policy is active) again and the same call can be made
\* again.
C4_FailureRestoresState ==
    [][/\ TransferStarts => saved' = Snapshot
       /\ TransferRuns => saved' = saved
       /\ TransferReverts =>
             /\ wallet' = saved.wallet
             /\ agriBalance' = saved.agriBalance
             /\ agriRoles' = saved.agriRoles
             /\ harvests' = saved.harvests
             /\ salesContracts' = saved.salesContracts
             /\ insurancePolicies' = saved.insurancePolicies
             /\ farmerHarvests' = saved.farmerHarvests
             /\ agriEvents' = saved.agriEvents
             /\ reentrancyStatus' = NOT_ENTERED
             /\ frame.op = "processPayment" =>
                   \E id \in {frame.id}, caller \in {frame.caller} :
                       /\ ~salesContracts'[id].completed
                       /\ (ProcessPaymentRevert(caller, id) = "")'
             /\ frame.op = "processInsurancePayout" =>
                   \E id \in {frame.id}, caller \in {frame.caller},
                      p \in {frame.payoutPercentage} :
                       /\ insurancePolicies'[id].active
                       /\ (ProcessInsurancePayoutRevert(caller, id, p) = "")']_vars

\* the transfer of a payment failed and the contract is ready to be paid
C4_Witness ==
    /\ frame = NoFrame
    /\ lastRevert = "Payment failed"
    /\ \E id \in DOMAIN salesContracts :
          /\ ~salesContracts[id].completed
          /\ salesContracts[id].deliveryConfirmed
          /\ salesContracts[id].escrowAmount > 0
          /\ agriBalance >= salesContracts[id].escrowAmount
          /\ EventCount(agriEvents, "PaymentProcessed", id) = 0

-----------------------------------------------------------------------------
(* Properties of the reputation score (SpecOrchestrator) *)

\* C6: the reputation score of every registered entity is in 0..1000 in every
\* reachable state.
C6_ReputationBounded ==
    \A a \in DOMAIN entities :
        entities[a].reputationScore >= 0 /\ entities[a].reputationScore <= 1000

\* one entity was raised to the upper end and another lowered to the lower end
C6_Witness ==
    \E a, b \in DOMAIN entities :
        /\ entities[a].reputationScore = 1000
        /\ entities[b].reputationScore = 0
        /\ EventCount(orchEvents, "ReputationUpdated", a) >= 1
        /\ EventCount(orchEvents, "ReputationUpdated", b) >= 1

\* C7: updateReputation called by a module for a registered wallet succeeds for
\* every signed delta of the integer width.
C7_NeverAborts ==
    \A caller \in Addr, entity \in DOMAIN entities, change \in Deltas :
        HasRole(orchRoles, "MODULE_ROLE", caller) =>
            UpdateReputationRevert(caller, entity, change) = ""

-----------------------------------------------------------------------------
(* Properties of crop insurance (SpecInsurance) *)

\* the step in which processInsurancePayout sends the value to the farmer
PayoutStarts == frame.op = "none" /\ frame'.op = "processInsurancePayout"

\* the step in which processInsurancePayout returns to its caller
PayoutReturns ==
    /\ frame.op = "processInsurancePayout"
    /\ frame'.op = "none"
    /\ EventCount(agriEvents', "InsurancePayoutProcessed", frame.id)
           > EventCount(agriEvents, "InsurancePayoutProcessed", frame.id)

\* C8: a processInsurancePayout(policyId, p) that succeeds moves exactly
\* floor(insuredValue * coveragePct * p / 10000), at most insuredValue, from
\* the contract to the policy's farmer and sets active to false; when it has
\* returned, the policy is inactive and every further payout call of a verifier
\* on it fails as not active.
C8_ExactPayoutThenInactive ==
    [][/\ PayoutStarts =>
             LET policy == PolicyAt(frame'.id)
                 amount == (policy.insuredValue * policy.coveragePercentage
                                * frame'.payoutPercentage) \div 10000
             IN  /\ frame'.to = policy.farmer
                 /\ frame'.amount = amount
                 /\ wallet'[policy.farmer] = wallet[policy.farmer] + amount
                 /\ agriBalance' = agriBalance - amount
                 /\ amount <= policy.insuredValue
                 /\ ~insurancePolicies'[frame'.id].active
       /\ PayoutReturns =>
             \E id \in {frame.id} :
                 /\ ~insurancePolicies'[id].active
                 /\ \A caller \in Addr, p \in PayoutPercentages :
                       HasRole(agriRoles', "VERIFIER_ROLE", caller) =>
                           (ProcessInsurancePayoutRevert(caller, id, p)
                                = "Policy not active")']_vars

\* C9: a policy id for which a payout was made is never active again.
C9_PaidOutStaysInactive ==
    \A id \in DOMAIN insurancePolicies :
        EventCount(agriEvents, "InsurancePayoutProcessed", id) >= 1 =>
            ~insurancePolicies[id].active

\* createInsurancePolicy succeeds exactly when the premium paid is at least
\* floor(insuredValue*4/100), for the arguments that satisfy Proviso
PremiumDecides(Proviso(_, _)) ==
    \A insuredValue \in InsuredValues, coverage \in Coverages,
       durationDays \in Durations, value \in PremiumValues :
        (insuredValue > 0 /\ coverage >= 1 /\ coverage <= 100
            /\ Proviso(insuredValue, durationDays)) =>
            (CreateInsurancePolicyRevert(insuredValue, coverage, durationDays,
                                         value) = ""
                <=> value >= (insuredValue * 4) \div 100)

\* the products and the sum that the function computes fit a uint256
FitsWord(insuredValue, durationDays) ==
    /\ insuredValue * 4 <= MaxUint
    /\ now + durationDays * SecondsPerDay <= MaxUint

NoProviso(insuredValue, durationDays) == TRUE

\* the step in which createInsurancePolicy stores the policy with that id
PolicyCreated(id) ==
    EventCount(agriEvents', "InsurancePolicyCreated", id)
        > EventCount(agriEvents, "InsurancePolicyCreated", id)

\* C10 (amended): createInsurancePolicy with insuredValue > 0, coverage in
\* 1..100, and insuredValue*4 and now + durationDays*86400 within uint256,
\* succeeds if and only if the premium paid is at least floor(insuredValue*4/100);
\* the policy it stores is active, has premium floor(insuredValue*4/100),
\* coverage in 1..100, starts now and ends durationDays days from now.
C10_PremiumDecidesWithinWord ==
    /\ []PremiumDecides(FitsWord)
    /\ [][\A caller \in Addr, cropType \in Crops :
             LET id == PolicyId(caller, cropType, now)
             IN  PolicyCreated(id) =>
                     LET policy == insurancePolicies'[id]
                     IN  /\ policy.active
                         /\ policy.farmer = caller
                         /\ policy.insuredValue > 0
                         /\ policy.premium = (policy.insuredValue * 4) \div 100
                         /\ agriBalance' - agriBalance >= policy.premium
                         /\ policy.coveragePercentage >= 1
                         /\ policy.coveragePercentage <= 100
                         /\ policy.startDate = now
                         /\ \E durationDays \in Durations :
                               policy.endDate = now + durationDays * 86400]_vars

\* C10 (as stated): createInsurancePolicy with insuredValue > 0 and coverage in
\* 1..100 succeeds if and only if the premium paid is at least
\* floor(insuredValue*4/100), for every duration.
C10_PremiumDecides == PremiumDecides(NoProviso)

\* a policy of value 1010 is stored with premium 40 after 400 was paid
C10_Witness ==
    /\ agriBalance = 400
    /\ \E id \in DOMAIN insurancePolicies :
          /\ insurancePolicies[id].active
          /\ insurancePolicies[id].insuredValue = 1010
          /\ insurancePolicies[id].premium = 40
          /\ insurancePolicies[id].endDate = now + SecondsPerDay
          /\ EventCount(agriEvents, "InsurancePolicyCreated", id) = 1


-----------------------------------------------------------------------------
(* Properties of carbon credits (SpecSustainability) *)

\* the step in which awardCarbonCredits succeeds
AwardStep ==
    \E e \in CreditEntities :
        EventCount(sustEvents', "CarbonCreditsAwarded", e)
            > EventCount(sustEvents, "CarbonCreditsAwarded", e)

\* the step in which retireCredits retires the credit with that id
Retires(id) ==
    /\ id \in DOMAIN carbonCredits
    /\ ~carbonCredits[id].retired
    /\ carbonCredits'[id].retired

\* C11: an award to an entity followed by the retirement of the credit by
\* that entity returns the entity's carbon balance to its value before the
\* award; only the entity retires its credit; a further retirement of a
\* retired credit fails as already retired, so that it changes no balance.
C11_AwardRetireRoundTrip ==
    /\ [][/\ AwardStep =>
                LET id == lastAward'.id
                    entity == lastAward'.entity
                IN  /\ carbonCredits'[id].entity = entity
                    /\ ~carbonCredits'[id].retired
                    /\ lastAward'.before = entityCarbonBalance[entity]
                    /\ entityCarbonBalance'[entity]
                           = entityCarbonBalance[entity] + carbonCredits'[id].amount
          /\ \A id \in DOMAIN carbonCredits :
                Retires(id) =>
                    /\ entityCarbonBalance'[carbonCredits[id].entity]
                           = entityCarbonBalance[carbonCredits[id].entity]
                                 - carbonCredits[id].amount
                    /\ lastAward.id = id =>
                          /\ lastAward.entity = carbonCredits[id].entity
                          /\ entityCarbonBalance'[lastAward.entity]
                                 = lastAward.before]_vars
    /\ [](\A id \in DOMAIN carbonCredits, caller \in Addr :
             /\ caller # carbonCredits[id].entity =>
                   RetireCreditsRevert(caller, id) = "Not credit owner"
             /\ (caller = carbonCredits[id].entity /\ carbonCredits[id].retired) =>
                   RetireCreditsRevert(caller, id) = "Already retired")

\* alice was awarded 5 on top of a balance of 5 and retired that credit at
\* once: the balance is 5 again and the credit is retired
C11_Witness ==
    /\ lastAward = NoAward
    /\ entityCarbonBalance["alice"] = 5
    /\ \E id \in DOMAIN carbonCredits :
          /\ carbonCredits[id].entity = "alice"
          /\ carbonCredits[id].amount = 5
          /\ carbonCredits[id].retired
          /\ carbonCredits[id].timestamp = now
    /\ \E id \in DOMAIN carbonCredits :
          /\ carbonCredits[id].entity = "alice"
          /\ carbonCredits[id].amount = 5
          /\ ~carbonCredits[id].retired
          /\ carbonCredits[id].timestamp < now
    /\ EventCount(sustEvents, "CarbonCreditsRetired", "alice") = 1
    /\ EventCount(sustEvents, "CarbonCreditsAwarded", "alice") = 2

RECURSIVE SumOfAmounts(_, _)
\* the sum of the amounts of the credits with the ids given
SumOfAmounts(credits, ids) ==
    IF ids = {} THEN 0
    ELSE LET id == CHOOSE x \in ids : TRUE
         IN  credits[id].amount + SumOfAmounts(credits, ids \ {id})

\* the ids of the credits of the entity that are not retired
LiveCredits(entity) ==
    {id \in DOMAIN carbonCredits :
        carbonCredits[id].entity = entity /\ ~carbonCredits[id].retired}

\* C12: in every reachable state the carbon balance of each entity is the sum
\* of the amounts of its credits that are not retired.
C12_BalanceIsSumOfLiveCredits ==
    \A entity \in Addr :
        entityCarbonBalance[entity] = SumOfAmounts(carbonCredits, LiveCredits(entity))

-----------------------------------------------------------------------------
(* Properties of the entity registry (SpecOrchestrator, SpecTransactions) *)

\* the step in which registerEntity succeeds for the wallet
RegistrationStep(a) ==
    EventCount(orchEvents', "EntityRegistered", a)
        > EventCount(orchEvents, "EntityRegistered", a)

\* C13: registerEntity succeeds at most once per wallet; the call that
\* succeeds comes from a wallet without an entity, has a non-empty module list
\* and stores the entity with reputation 500, verified false and no
\* transactions, leaving the other entities as they were; a call from a
\* registered wallet and a call with an empty module list fail (a failing call
\* changes nothing); while the contract is not paused every other call
\* succeeds; no operation removes an entity.
C13_RegisteredOnce ==
    /\ [][\A a \in Addr :
             /\ RegistrationStep(a) =>
                   /\ a \notin DOMAIN entities
                   /\ entities'[a].wallet = a
                   /\ Len(entities'[a].activeModules) > 0
                   /\ entities'[a].reputationScore = 500
                   /\ entities'[a].verified = FALSE
                   /\ entities'[a].totalTransactions = 0
                   /\ \A b \in DOMAIN entities : entities'[b] = entities[b]
             /\ a \in DOMAIN entities =>
                   a \in DOMAIN entities' /\ entities'[a].wallet = a]_vars
    /\ [](\A a \in Addr :
             /\ EventCount(orchEvents, "EntityRegistered", a) <= 1
             /\ a \in DOMAIN entities <=>
                   EventCount(orchEvents, "EntityRegistered", a) = 1
             /\ \A moduleList \in ModuleLists :
                   /\ a \in DOMAIN entities =>
                         RegisterEntityRevert(a, moduleList) # ""
                   /\ Len(moduleList) = 0 =>
                         RegisterEntityRevert(a, moduleList) # ""
                   /\ (~paused /\ a \notin DOMAIN entities /\ Len(moduleList) > 0) =>
                         RegisterEntityRevert(a, moduleList) = "")

\* alice is registered with the starting score and a further registration of
\* alice is refused because the entity exists
C13_Witness ==
    /\ ~paused
    /\ "alice" \in DOMAIN entities
    /\ "bob" \notin DOMAIN entities
    /\ entities["alice"].reputationScore = 500
    /\ ~entities["alice"].verified
    /\ entities["alice"].activeModules = <<"agriculture">>
    /\ RegisterEntityRevert("alice", <<"agriculture">>) = "Entity exists"

\* the step in which verifyEntity succeeds for the wallet
VerificationStep(a) ==
    EventCount(orchEvents', "EntityVerified", a)
        > EventCount(orchEvents, "EntityVerified", a)

\* C14: verifyEntity called by a verifier fails for a wallet without an
\* entity and for a verified wallet, and otherwise succeeds and sets verified,
\* changing nothing else of the entity; a verified wallet is verified in every
\* later state.
C14_VerifiedOnceAndForAll ==
    /\ [][\A a \in Addr :
             /\ VerificationStep(a) =>
                   /\ a \in DOMAIN entities
                   /\ ~entities[a].verified
                   /\ entities' = [entities EXCEPT ![a].verified = TRUE]
             /\ (a \in DOMAIN entities /\ entities[a].verified) =>
                   (a \in DOMAIN entities' /\ entities'[a].verified)
             /\ (a \in DOMAIN entities /\ ~entities[a].verified
                     /\ entities'[a].verified) => VerificationStep(a)]_vars
    /\ [](\A caller \in Addr, a \in Addr :
             IF ~HasRole(orchRoles, "VERIFIER_ROLE", caller)
             THEN VerifyEntityRevert(caller, a) # ""
             ELSE /\ a \notin DOMAIN entities =>
                        VerifyEntityRevert(caller, a) = "Entity not found"
                  /\ (a \in DOMAIN entities /\ entities[a].verified) =>
                        VerifyEntityRevert(caller, a) = "Already verified"
                  /\ (a \in DOMAIN entities /\ ~entities[a].verified) =>
                        VerifyEntityRevert(caller, a) = "")

\* alice was verified, and a verifier who verifies her again is refused
C14_Witness ==
    /\ "alice" \in DOMAIN entities
    /\ entities["alice"].verified
    /\ EventCount(orchEvents, "EntityVerified", "alice") = 1
    /\ \E caller \in Addr :
          VerifyEntityRevert(caller, "alice") = "Already verified"
    /\ \E caller \in Addr :
          VerifyEntityRevert(caller, "deployer") = "Entity not found"

-----------------------------------------------------------------------------
(* Properties of cross-module transactions (SpecTransactions) *)

\* the step in which createCrossModuleTransaction stores the transaction
TransactionCreated(txId) ==
    EventCount(orchEvents', "CrossModuleTransactionCreated", TxKey(txId))
        > EventCount(orchEvents, "CrossModuleTransactionCreated", TxKey(txId))

\* C15: createCrossModuleTransaction succeeds only if the caller is a
\* registered entity that is verified and the module list is not empty; the
\* transaction it stores is pending and has the caller as initiator; the
\* initiator of every stored transaction is a verified entity.
C15_OnlyVerifiedCreate ==
    /\ [][\A caller \in Addr, moduleList \in ModuleLists, value \in TxValues :
             LET txId == TransactionId(caller, now, moduleList, value)
             IN  TransactionCreated(txId) =>
                     /\ caller \in DOMAIN entities
                     /\ entities[caller].wallet = caller
                     /\ entities[caller].verified
                     /\ Len(moduleList) > 0
                     /\ transactions'[txId].status = "PENDING"
                     /\ transactions'[txId].initiator = caller
                     /\ transactions'[txId].involvedModules = moduleList
                     /\ transactions'[txId].value = value
                     /\ transactions'[txId].timestamp = now]_vars
    /\ [][\A txId \in DOMAIN transactions' \ DOMAIN transactions :
             TransactionCreated(txId)]_vars
    /\ [](\A caller \in Addr, moduleList \in ModuleLists :
             (\/ caller \notin DOMAIN entities
              \/ ~entities[caller].verified
              \/ Len(moduleList) = 0) =>
                 CreateCrossModuleTransactionRevert(caller, moduleList) # "")
    /\ [](\A txId \in DOMAIN transactions :
             /\ transactions[txId].initiator \in DOMAIN entities
             /\ entities[transactions[txId].initiator].verified)

\* alice, verified, has created a pending transaction of value 7, and bob,
\* registered and not verified, is refused
C15_Witness ==
    /\ ~paused
    /\ \E txId \in DOMAIN transactions :
          /\ transactions[txId].initiator = "alice"
          /\ transactions[txId].status = "PENDING"
          /\ transactions[txId].value = 7
          /\ EventCount(orchEvents, "CrossModuleTransactionCreated", TxKey(txId)) = 1
    /\ "bob" \in DOMAIN entities
    /\ CreateCrossModuleTransactionRevert("bob", <<"agriculture">>)
           = "Entity not verified"

\* the step in which completeCrossModuleTransaction succeeds for the id
TransactionCompleted(txId) ==
    EventCount(orchEvents', "CrossModuleTransactionCompleted", TxKey(txId))
        > EventCount(orchEvents, "CrossModuleTransactionCompleted", TxKey(txId))

\* the storage in which the stored transaction txId is being processed
Processing(txId) == [transactions EXCEPT ![txId].status = "PROCESSING"]

\* C16: completeCrossModuleTransaction called by a module succeeds only for a
\* transaction whose status is Processing: it fails for every other status
\* and for an unknown id; applied to a transaction that is being processed it
\* sets the status to Completed and adds exactly 1 to the initiator's
\* totalTransactions, and changes nothing else.
C16_CompletesOnlyProcessing ==
    /\ [](\A status \in Statuses :
             StatusRevert(status) = "" <=> status = "PROCESSING")
    /\ [](\A caller \in Addr, txId \in TxIds :
             IF ~HasRole(orchRoles, "MODULE_ROLE", caller)
             THEN CompleteCrossModuleTransactionRevert(caller, txId) # ""
             ELSE TransactionAt(txId).status # "PROCESSING" =>
                     CompleteCrossModuleTransactionRevert(caller, txId)
                         = "Invalid status")
    /\ [](\A txId \in DOMAIN transactions :
             LET initiator == transactions[txId].initiator
             IN  /\ CompletedIn(Processing(txId), txId)
                        = [transactions EXCEPT ![txId].status = "COMPLETED"]
                 /\ CountedIn(entities, initiator)
                        = [entities EXCEPT ![initiator].totalTransactions
                                               = entities[initiator].totalTransactions + 1])
    /\ [][\A txId \in TxIds :
             TransactionCompleted(txId) =>
                 /\ TransactionAt(txId).status = "PROCESSING"
                 /\ transactions'[txId].status = "COMPLETED"
                 /\ \A other \in DOMAIN transactions \ {txId} :
                       transactions'[other] = transactions[other]]_vars

\* a module is set, alice's transaction is pending, and the module's call to
\* complete it, or to complete an unknown id, is refused
C16_Witness ==
    /\ HasRole(orchRoles, "MODULE_ROLE", "alice")
    /\ \E txId \in DOMAIN transactions :
          /\ transactions[txId].status = "PENDING"
          /\ CompleteCrossModuleTransactionRevert("alice", txId) = "Invalid status"
    /\ CompleteCrossModuleTransactionRevert("alice", UnknownId) = "Invalid status"
    /\ CompleteCrossModuleTransactionRevert("bob", UnknownId) = MissingRole

\* C18: getTransaction fails for every id that was never created.
C18_UnknownIdNotFound ==
    \A txId \in TxIds \ DOMAIN transactions :
        \/ GetTransactionRevert(txId) # ""
        \/ GetTransaction(txId).status # "PENDING"

-----------------------------------------------------------------------------
(* Properties of harvests and sales contracts (SpecSales) *)

\* C19: the harvest index of every farmer lists the ids of the farmer's
\* harvests without duplicates, one entry for each successful recordHarvest,
\* and every stored harvest has quantity > 0 and grade in 1..5.
C19_HarvestIndexExact ==
    /\ \A id \in DOMAIN harvests :
          /\ harvests[id].quantity > 0
          /\ harvests[id].qualityGrade >= 1
          /\ harvests[id].qualityGrade <= 5
    /\ \A a \in Addr :
          /\ \A i, j \in 1..Len(farmerHarvests[a]) :
                farmerHarvests[a][i] = farmerHarvests[a][j] => i = j
          /\ {farmerHarvests[a][i] : i \in 1..Len(farmerHarvests[a])}
                 = {id \in DOMAIN harvests : harvests[id].farmer = a}

\* the step in which createSalesContract stores the contract with that id
SaleCreated(id) ==
    EventCount(agriEvents', "SalesContractCreated", id)
        > EventCount(agriEvents, "SalesContractCreated", id)

\* C20: createSalesContract fails, and stores nothing, when the caller is not
\* the farmer of the harvest (also when the harvest does not exist), when the
\* quantity exceeds the quantity of the harvest, and when the buyer is the
\* zero address; the contract it stores has totalAmount = quantity *
\* pricePerUnit, escrowAmount 0 and deliveryConfirmed, qualityVerified and
\* completed false.
C20_SalesContractGuards ==
    /\ [][\A caller \in Addr, buyer \in Buyers,
             harvestId \in DOMAIN harvests \cup {UnknownId} :
             LET id == SalesContractId(caller, buyer, harvestId, now)
             IN  (agriEvents' # agriEvents /\ SaleCreated(id)) =>
                     /\ harvestId \in DOMAIN harvests
                     /\ harvests[harvestId].farmer = caller
                     /\ buyer # ZeroAddress
                     /\ salesContracts'[id].farmer = caller
                     /\ salesContracts'[id].buyer = buyer
                     /\ salesContracts'[id].harvestId = harvestId
                     /\ salesContracts'[id].quantity <= harvests[harvestId].quantity
                     /\ salesContracts'[id].totalAmount
                            = salesContracts'[id].quantity
                                  * salesContracts'[id].pricePerUnit
                     /\ salesContracts'[id].escrowAmount = 0
                     /\ ~salesContracts'[id].deliveryConfirmed
                     /\ ~salesContracts'[id].qualityVerified
                     /\ ~salesContracts'[id].completed]_vars
    /\ [][\A id \in DOMAIN salesContracts' :
             (/\ salesContracts' # salesContracts
              /\ SalesContractAt(id).farmer = ZeroAddress
              /\ salesContracts'[id].farmer # ZeroAddress) => SaleCreated(id)]_vars
    /\ [](\A caller \in Addr, buyer \in Buyers,
             harvestId \in DOMAIN harvests \cup {UnknownId},
             quantity \in SaleQuantities, pricePerUnit \in Prices :
             (\/ harvestId \notin DOMAIN harvests
              \/ harvests[harvestId].farmer # caller
              \/ quantity > harvests[harvestId].quantity
              \/ buyer = ZeroAddress) =>
                 CreateSalesContractRevert(caller, buyer, harvestId, quantity,
                                           pricePerUnit) # "")

\* a contract for 1 unit at 700 is stored as created, and the same call for 3
\* units of the harvest of 2 is refused
C20_Witness ==
    /\ frame = NoFrame
    /\ \E id \in DOMAIN salesContracts :
          LET c == salesContracts[id]
          IN  /\ c.quantity = 1
              /\ c.totalAmount = 700
              /\ c.escrowAmount = 0
              /\ ~c.deliveryConfirmed
              /\ ~c.completed
              /\ EventCount(agriEvents, "SalesContractCreated", id) = 1
              /\ CreateSalesContractRevert(c.farmer, c.buyer, c.harvestId, 3, 700)
                     = "Insufficient quantity"
              /\ CreateSalesContractRevert(c.buyer, c.buyer, c.harvestId, 1, 700)
                     = "Not harvest owner"

-----------------------------------------------------------------------------
(* Properties of healthcare visits and policies (SpecHealthcare) *)

\* the step in which recordVisit stores the visit with that id
VisitStep(id) ==
    /\ healthEvents' # healthEvents
    /\ EventCount(healthEvents', "VisitRecorded", id)
           > EventCount(healthEvents, "VisitRecorded", id)

\* C25: the visit that recordVisit stores has insuranceCovered =
\* floor(cost*80/100) and patientPayment = cost - insuranceCovered when the
\* patient's current policy is active and cost <= coverageLimit, and
\* insuranceCovered = 0, patientPayment = cost otherwise (also for a patient
\* without a policy); insuranceCovered + patientPayment = cost, and
\* insuranceCovered is at most the coverage limit of the current policy.
C25_CoverageSplit ==
    [][\A patient \in Patients, facility \in Facilities :
          LET id == VisitId(patient, facility, now)
              policy == HealthPolicyAt(patientInsurance[patient])
          IN  VisitStep(id) =>
                  /\ visits'[id].patient = patient
                  /\ visits'[id].timestamp = now
                  /\ IF policy.active /\ visits'[id].cost <= policy.coverageLimit
                     THEN /\ visits'[id].insuranceCovered
                                 = (visits'[id].cost * 80) \div 100
                          /\ visits'[id].patientPayment
                                 = visits'[id].cost - (visits'[id].cost * 80) \div 100
                     ELSE /\ visits'[id].insuranceCovered = 0
                          /\ visits'[id].patientPayment = visits'[id].cost
                  /\ patientInsurance[patient] = ZeroId =>
                        visits'[id].insuranceCovered = 0
                  /\ visits'[id].insuranceCovered + visits'[id].patientPayment
                         = visits'[id].cost
                  /\ visits'[id].insuranceCovered <= policy.coverageLimit]_vars

\* a visit of cost 2500 under an active policy with limit 2500 is stored with
\* 2000 covered and 500 for the patient
C25_Witness ==
    \E id \in DOMAIN visits :
        /\ visits[id].cost = 2500
        /\ visits[id].insuranceCovered = 2000
        /\ visits[id].patientPayment = 500
        /\ CurrentPolicy(visits[id].patient).active
        /\ CurrentPolicy(visits[id].patient).coverageLimit = 2500
        /\ EventCount(healthEvents, "VisitRecorded", id) = 1

\* C26: the cost, insuranceCovered and patientPayment of a stored visit never
\* change.
C26_VisitsImmutable ==
    [][\A id \in DOMAIN visits :
          /\ id \in DOMAIN visits'
          /\ visits'[id].cost = visits[id].cost
          /\ visits'[id].insuranceCovered = visits[id].insuranceCovered
          /\ visits'[id].patientPayment = visits[id].patientPayment]_vars

\* C27: every stored health insurance policy stays stored unchanged when the
\* patient creates a policy, and the patient's pointer refers to the policy
\* created last.
C27_EarlierPoliciesKept ==
    [][/\ \A id \in DOMAIN healthPolicies :
             id \in DOMAIN healthPolicies' /\ healthPolicies'[id] = healthPolicies[id]
       /\ \A patient \in Addr :
             patientInsurance'[patient] # patientInsurance[patient] =>
                 /\ patientInsurance'[patient] \in DOMAIN healthPolicies'
                 /\ healthPolicies'[patientInsurance'[patient]].patient = patient]_vars

\* the step in which deductPremium succeeds
DeductStep ==
    /\ healthEvents' # healthEvents
    /\ \E e \in BagToSet(healthEvents') :
          /\ e.name = "PremiumDeducted"
          /\ CopiesIn(e, healthEvents') > CopiesIn(e, healthEvents)

\* C28: deductPremium changes no storage of any contract, whether it succeeds
\* or fails (a failing call changes nothing at all; a successful one only logs
\* the event, with the monthly premium of the current policy); it succeeds
\* exactly when the patient's current policy is active, has autoDeduct set and
\* amount >= monthlyPremium, and fails as not active for a patient without a
\* policy.
C28_DeductionWritesNothing ==
    /\ [][DeductStep =>
             /\ UNCHANGED <<now, wallet, agriVars, orchVars, sustVars, healthRoles,
                            healthPolicies, patientInsurance, visits>>
             /\ \E patient \in Patients :
                   /\ healthPolicies[patientInsurance[patient]].active
                   /\ healthPolicies[patientInsurance[patient]].autoDeduct
                   /\ healthEvents' = Emit(healthEvents,
                          PremiumDeducted(patientInsurance[patient], patient,
                              healthPolicies[patientInsurance[patient]].monthlyPremium))]_vars
    /\ [](\A patient \in Addr, amount \in DeductAmounts :
             /\ DeductPremiumRevert(patient, amount) = "" <=>
                   /\ patientInsurance[patient] \in DOMAIN healthPolicies
                   /\ healthPolicies[patientInsurance[patient]].active
                   /\ healthPolicies[patientInsurance[patient]].autoDeduct
                   /\ amount >= healthPolicies[patientInsurance[patient]].monthlyPremium
             /\ patientInsurance[patient] = ZeroId =>
                   DeductPremiumRevert(patient, amount) = "Policy not active")

\* a premium of 10 was deducted for alice, and the same call is refused for
\* bob, who has no policy, and for alice with an amount of 9
C28_Witness ==
    /\ EventCount(healthEvents, "PremiumDeducted", patientInsurance["alice"]) = 1
    /\ CurrentPolicy("alice").autoDeduct
    /\ CurrentPolicy("alice").monthlyPremium = 10
    /\ DeductPremiumRevert("alice", 9) = "Insufficient amount"
    /\ DeductPremiumRevert("bob", 10) = "Policy not active"

-----------------------------------------------------------------------------
(* Properties of sales contracts and escrow (SpecCommitments, SpecSales) *)

RECURSIVE SumOfQuantities(_, _)
\* the sum of the quantities of the sales contracts with the ids given
SumOfQuantities(contracts, ids) ==
    IF ids = {} THEN 0
    ELSE LET id == CHOOSE x \in ids : TRUE
         IN  contracts[id].quantity + SumOfQuantities(contracts, ids \ {id})

\* the ids of the sales contracts created against the harvest
ContractsOf(harvestId) ==
    {id \in DOMAIN salesContracts : salesContracts[id].harvestId = harvestId}

\* C21: for every harvest, the quantities of the sales contracts created
\* against it add up to at most the quantity of the harvest.
C21_NeverOversold ==
    \A harvestId \in DOMAIN harvests :
        SumOfQuantities(salesContracts, ContractsOf(harvestId))
            <= harvests[harvestId].quantity

\* depositEscrow succeeds only for the buyer of a contract that is not
\* completed and with a value of at least totalAmount
DepositGuarded ==
    \A caller \in Addr, id \in ContractIds, value \in EscrowValues :
        DepositEscrowRevert(caller, id, value) = "" =>
            /\ caller = SalesContractAt(id).buyer
            /\ ~SalesContractAt(id).completed
            /\ value >= SalesContractAt(id).totalAmount

\* the escrow of every contract is 0 or at least its totalAmount
EscrowCoversTotal ==
    \A id \in DOMAIN salesContracts :
        \/ salesContracts[id].escrowAmount = 0
        \/ salesContracts[id].escrowAmount >= salesContracts[id].totalAmount

\* C22: depositEscrow succeeds only for the buyer, on a contract that is not
\* completed, with amount >= totalAmount; the escrow of every contract is 0 or
\* at least totalAmount; and the escrow of a completed contract never changes.
C22_EscrowFixedOnceCompleted ==
    /\ []DepositGuarded
    /\ []EscrowCoversTotal
    /\ [][\A id \in DOMAIN salesContracts :
             (salesContracts' # salesContracts /\ salesContracts[id].completed) =>
                 salesContracts'[id].escrowAmount = salesContracts[id].escrowAmount]_vars

\* C23: the two flags of every contract are equal, and a flag that is true
\* never becomes false.
C23_FlagsStayTrue ==
    /\ [](\A id \in DOMAIN salesContracts :
             salesContracts[id].deliveryConfirmed = salesContracts[id].qualityVerified)
    /\ [][\A id \in DOMAIN salesContracts :
             (salesContracts' # salesContracts
                 /\ salesContracts[id].deliveryConfirmed) =>
                 /\ salesContracts'[id].deliveryConfirmed
                 /\ salesContracts'[id].qualityVerified]_vars

-----------------------------------------------------------------------------
(* Properties of the payout guards (SpecInsurance) *)

\* C24: processInsurancePayout called by a verifier is rejected as not active
\* for a policy that is not active (also for an unknown id), as expired when
\* the time is after endDate, and as invalid when the percentage exceeds 100
\* (a rejected call changes nothing); up to and at endDate, with a percentage
\* of at most 100, it is accepted when the contract holds the amount; a payout
\* starts only on an active policy, not after endDate, with at most 100.
C24_PayoutGuards ==
    /\ [](\A caller \in Addr, id \in PolicyIds, p \in PayoutPercentages :
             (HasRole(agriRoles, "VERIFIER_ROLE", caller)
                 /\ reentrancyStatus = NOT_ENTERED) =>
                 LET policy == PolicyAt(id)
                     reason == ProcessInsurancePayoutRevert(caller, id, p)
                 IN  /\ ~policy.active => reason = "Policy not active"
                     /\ (policy.active /\ now > policy.endDate) =>
                           reason = "Policy expired"
                     /\ (policy.active /\ now <= policy.endDate /\ p > 100) =>
                           reason = "Invalid payout"
                     /\ (/\ policy.active
                         /\ now <= policy.endDate
                         /\ p <= 100
                         /\ policy.insuredValue * policy.coveragePercentage * p
                                <= MaxUint
                         /\ agriBalance >= (policy.insuredValue
                                * policy.coveragePercentage * p) \div 10000) =>
                           reason = "")
    /\ [][PayoutStarts =>
             /\ PolicyAt(frame'.id).active
             /\ ~insurancePolicies'[frame'.id].active
             /\ now <= PolicyAt(frame'.id).endDate
             /\ frame'.payoutPercentage <= 100]_vars

\* a payout runs on the last second of a policy that started a day earlier,
\* and an unknown policy id is refused as not active
C24_Witness ==
    /\ frame.op = "processInsurancePayout"
    /\ now = PolicyAt(frame.id).endDate
    /\ now > PolicyAt(frame.id).startDate
    /\ frame.amount > 0
    /\ ~PolicyAt(UnknownId).active

-----------------------------------------------------------------------------
(* Frame of award and retire (SpecSustainability) *)

\* the step in which retireCredits succeeds
RetireStep ==
    /\ sustEvents' # sustEvents
    /\ \E e \in CreditEntities :
          EventCount(sustEvents', "CarbonCreditsRetired", e)
              > EventCount(sustEvents, "CarbonCreditsRetired", e)

\* C29: an award stores a credit that is verified and not retired and belongs
\* to the entity given, adds exactly the amount to the balance of that entity
\* and leaves every other balance and every other credit as it was; a
\* retirement succeeds only for the entity of the credit, sets the retired
\* flag of that credit and subtracts its amount from the balance of that
\* entity, and changes no other credit, field or balance.
C29_AwardRetireFrame ==
    /\ [][/\ AwardStep =>
                LET id == lastAward'.id
                    entity == lastAward'.entity
                IN  /\ carbonCredits'[id].verified
                    /\ ~carbonCredits'[id].retired
                    /\ carbonCredits'[id].entity = entity
                    /\ DOMAIN carbonCredits' = DOMAIN carbonCredits \cup {id}
                    /\ \A other \in DOMAIN carbonCredits \ {id} :
                          carbonCredits'[other] = carbonCredits[other]
                    /\ \A a \in Addr :
                          entityCarbonBalance'[a]
                              = IF a = entity
                                THEN entityCarbonBalance[a] + carbonCredits'[id].amount
                                ELSE entityCarbonBalance[a]
          /\ RetireStep =>
                \E id \in DOMAIN carbonCredits :
                    /\ ~carbonCredits[id].retired
                    /\ carbonCredits' = [carbonCredits EXCEPT ![id].retired = TRUE]
                    /\ \A a \in Addr :
                          entityCarbonBalance'[a]
                              = IF a = carbonCredits[id].entity
                                THEN entityCarbonBalance[a] - carbonCredits[id].amount
                                ELSE entityCarbonBalance[a]
          /\ \A id \in DOMAIN carbonCredits : Retires(id) => RetireStep]_vars
    /\ [](\A caller \in Addr, id \in CreditIds :
             RetireCreditsRevert(caller, id) = "" =>
                 /\ id \in DOMAIN carbonCredits
                 /\ caller = carbonCredits[id].entity
                 /\ ~carbonCredits[id].retired)

\* alice and bob were awarded 5 each and alice retired her credit: bob's
\* credit and balance are as awarded
C29_Witness ==
    /\ entityCarbonBalance["alice"] = 0
    /\ entityCarbonBalance["bob"] = 5
    /\ \E id \in DOMAIN carbonCredits :
          /\ carbonCredits[id].entity = "alice"
          /\ carbonCredits[id].amount = 5
          /\ carbonCredits[id].verified
          /\ carbonCredits[id].retired
    /\ \E id \in DOMAIN carbonCredits :
          /\ carbonCredits[id].entity = "bob"
          /\ carbonCredits[id].amount = 5
          /\ carbonCredits[id].verified
          /\ ~carbonCredits[id].retired
    /\ EventCount(sustEvents, "CarbonCreditsRetired", "alice") = 1
    /\ EventCount(sustEvents, "CarbonCreditsAwarded", "alice") = 1

-----------------------------------------------------------------------------
(* Properties of the role gates of the four contracts (SpecRoles) *)

\* the step in which updateReputation succeeds for the wallet
ReputationStep(a) ==
    EventCount(orchEvents', "ReputationUpdated", a)
        > EventCount(orchEvents, "ReputationUpdated", a)

\* every role-gated operation called by an account outside the role fails as
\* a missing role
RolelessRejected ==
    \A caller \in Addr :
        /\ caller \notin orchRoles["VERIFIER_ROLE"] =>
              \A entity \in Addr :
                  VerifyEntityRevert(caller, entity) = MissingRole
        /\ caller \notin orchRoles["MODULE_ROLE"] =>
              /\ \A entity \in Addr, change \in Deltas :
                    UpdateReputationRevert(caller, entity, change) = MissingRole
              /\ \A txId \in DOMAIN transactions \cup {UnknownId} :
                    CompleteCrossModuleTransactionRevert(caller, txId) = MissingRole
        /\ caller \notin orchRoles["ADMIN_ROLE"] =>
              /\ \A moduleAddress \in Addr :
                    SetModuleAddressRevert(caller, "agriculture", moduleAddress)
                        = MissingRole
              /\ PauseRevert(caller) = MissingRole
              /\ UnpauseRevert(caller) = MissingRole
        /\ caller \notin agriRoles["VERIFIER_ROLE"] =>
              /\ \A id \in ContractIds :
                    ConfirmDeliveryAndQualityRevert(caller, id) = MissingRole
              /\ \A id \in PolicyIds, payoutPercentage \in {0, 50, 100} :
                    ProcessInsurancePayoutRevert(caller, id, payoutPercentage)
                        = MissingRole
        /\ caller \notin healthRoles["PROVIDER_ROLE"] =>
              \A patient \in Addr, cost \in Costs :
                  RecordVisitRevert(caller, patient, cost) = MissingRole
        /\ caller \notin sustRoles["VERIFIER_ROLE"] =>
              \A entity \in Addr, amount \in {0, 5} :
                  AwardCarbonCreditsRevert(caller, entity, amount) = MissingRole

\* a verified flag or the reputation score of a registered entity changes
\* only in a successful verifyEntity or updateReputation, and a visit is
\* written only while an account holds the provider role
GatedOrchestratorChanges ==
    /\ \A a \in Addr :
          /\ EntityAt(a)'.verified # EntityAt(a).verified =>
                /\ orchRoles["VERIFIER_ROLE"] # {}
                /\ VerificationStep(a)
          /\ (/\ a \in DOMAIN entities
              /\ entities'[a].reputationScore # entities[a].reputationScore) =>
                /\ orchRoles["MODULE_ROLE"] # {}
                /\ ReputationStep(a)
    /\ paused' # paused => orchRoles["ADMIN_ROLE"] # {}
    /\ modules' # modules => orchRoles["ADMIN_ROLE"] # {}
    /\ visits' # visits => healthRoles["PROVIDER_ROLE"] # {}

\* C30: a role-gated operation called by an account outside its role is
\* rejected as a missing role and changes no state; a verified flag, the
\* reputation score of a registered entity, a delivery flag and a carbon
\* balance change only in a successful role-gated operation.
C30_OnlyRoleHoldersChange ==
    /\ []RolelessRejected
    /\ [][/\ GatedOrchestratorChanges
          /\ \A id \in DOMAIN salesContracts :
                salesContracts'[id].deliveryConfirmed
                    # salesContracts[id].deliveryConfirmed =>
                    /\ agriRoles["VERIFIER_ROLE"] # {}
                    /\ salesContracts'[id].deliveryConfirmed
          /\ \A a \in Addr :
                entityCarbonBalance'[a] # entityCarbonBalance[a] =>
                    /\ sustRoles["VERIFIER_ROLE"] # {}
                    /\ AwardStep]_vars

\* C30 with its exceptions: a role-gated operation called by an account
\* outside its role is rejected as a missing role and changes no state; a
\* verified flag and the reputation score of a registered entity change, a
\* delivery flag is set and a carbon balance grows only in a successful
\* role-gated operation. The owner of a credit lowers its own balance by
\* retiring the credit, and the farmer who creates a sales contract again
\* under the same id clears its delivery flag.
C30_OnlyRoleHoldersRaise ==
    /\ []RolelessRejected
    /\ [][/\ GatedOrchestratorChanges
          /\ \A id \in ContractIds :
                (/\ ~SalesContractAt(id).deliveryConfirmed
                 /\ id \in DOMAIN salesContracts'
                 /\ salesContracts'[id].deliveryConfirmed) =>
                    /\ agriRoles["VERIFIER_ROLE"] # {}
                    /\ <<"confirmDeliveryAndQuality", id, 0>> \in agriCalls'
          /\ \A id \in DOMAIN salesContracts :
                (/\ salesContracts[id].deliveryConfirmed
                 /\ ~salesContracts'[id].deliveryConfirmed) =>
                    EventCount(agriEvents', "SalesContractCreated", id)
                        > EventCount(agriEvents, "SalesContractCreated", id)
          /\ \A a \in Addr :
                /\ entityCarbonBalance'[a] > entityCarbonBalance[a] =>
                      /\ sustRoles["VERIFIER_ROLE"] # {}
                      /\ AwardStep
                /\ entityCarbonBalance'[a] < entityCarbonBalance[a] =>
                      /\ RetireStep
                      /\ \E id \in DOMAIN carbonCredits :
                            /\ carbonCredits[id].entity = a
                            /\ Retires(id)]_vars

\* alice holds no role and bob holds them; alice was verified, her reputation
\* was raised, a visit of hers was recorded and her contract was confirmed by
\* bob, she was awarded 5 credits and retired them herself
C30_Witness ==
    /\ \A role \in DOMAIN orchRoles : "alice" \notin orchRoles[role]
    /\ \A role \in DOMAIN agriRoles : "alice" \notin agriRoles[role]
    /\ \A role \in DOMAIN sustRoles : "alice" \notin sustRoles[role]
    /\ \A role \in DOMAIN healthRoles : "alice" \notin healthRoles[role]
    /\ "bob" \in orchRoles["VERIFIER_ROLE"] \cap orchRoles["MODULE_ROLE"]
    /\ "alice" \in DOMAIN entities
    /\ entities["alice"].verified
    /\ entities["alice"].reputationScore = 1000
    /\ VerifyEntityRevert("alice", "alice") = MissingRole
    /\ \E id \in DOMAIN salesContracts :
          /\ salesContracts[id].farmer = "alice"
          /\ salesContracts[id].deliveryConfirmed
          /\ ConfirmDeliveryAndQualityRevert("alice", id) = MissingRole
    /\ visits # <<>>
    /\ EventCount(sustEvents, "CarbonCreditsAwarded", "alice") = 1
    /\ EventCount(sustEvents, "CarbonCreditsRetired", "alice") = 1
    /\ entityCarbonBalance["alice"] = 0
    /\ AwardCarbonCreditsRevert("alice", "alice", 5) = MissingRole

-----------------------------------------------------------------------------
(* Properties of the re-entrancy guard (SpecInsurance) *)

-----------------------------------------------------------------------------
(* Properties of the event log (SpecSales) *)

\* C32: every successful state-changing operation emits an event: a
\* transaction that changes the stored harvests, sales contracts or policies
\* of the agriculture contract (escrow deposits and delivery confirmations
\* among them) adds to its event log.
C32_EveryChangeLogged ==
    [][(/\ frame = NoFrame
        /\ frame' = NoFrame
        /\ \/ salesContracts' # salesContracts
           \/ harvests' # harvests
           \/ insurancePolicies' # insurancePolicies) =>
          agriEvents' # agriEvents]_vars

-----------------------------------------------------------------------------
(* Properties of the pause switch (SpecTransactions) *)

\* registerEntity and createCrossModuleTransaction fail as paused for every
\* caller while the orchestrator is paused
RejectedWhilePaused ==
    paused =>
        \A caller \in Addr, moduleList \in ModuleLists :
            /\ RegisterEntityRevert(caller, moduleList) = "Pausable: paused"
            /\ CreateCrossModuleTransactionRevert(caller, moduleList)
                   = "Pausable: paused"

\* while the orchestrator is not paused the two operations succeed exactly
\* when their require statements hold
DecidedByRequires ==
    ~paused =>
        \A caller \in Addr, moduleList \in ModuleLists :
            /\ RegisterEntityRevert(caller, moduleList) = ""
                  <=> (EntityAt(caller).wallet = ZeroAddress /\ Len(moduleList) > 0)
            /\ CreateCrossModuleTransactionRevert(caller, moduleList) = ""
                  <=> (EntityAt(caller).verified /\ Len(moduleList) > 0)

\* pause and unpause fail as a missing role for an account without ADMIN_ROLE
OnlyAdminPauses ==
    \A caller \in Addr :
        caller \notin orchRoles["ADMIN_ROLE"] =>
            /\ PauseRevert(caller) = MissingRole
            /\ UnpauseRevert(caller) = MissingRole

\* C33: while the orchestrator is paused registerEntity and
\* createCrossModuleTransaction are rejected, so that no entity and no
\* transaction is added until unpause; only an admin pauses and unpauses, a
\* pause or unpause changes nothing but the switch, and while not paused the
\* two operations are decided by their require statements alone.
C33_PauseFreezesCreation ==
    /\ []RejectedWhilePaused
    /\ []DecidedByRequires
    /\ []OnlyAdminPauses
    /\ [][/\ paused =>
                /\ DOMAIN entities' = DOMAIN entities
                /\ DOMAIN transactions' = DOMAIN transactions
                /\ \A a \in Addr :
                      /\ EventCount(orchEvents', "EntityRegistered", a)
                             = EventCount(orchEvents, "EntityRegistered", a)
                /\ \A txId \in DOMAIN transactions' :
                      EventCount(orchEvents', "CrossModuleTransactionCreated", TxKey(txId))
                          = EventCount(orchEvents, "CrossModuleTransactionCreated", TxKey(txId))
          /\ paused' # paused =>
                /\ orchRoles["ADMIN_ROLE"] # {}
                /\ entities' = entities
                /\ transactions' = transactions
                /\ orchEvents' = orchEvents
                /\ orchRoles' = orchRoles
                /\ modules' = modules]_vars

\* the orchestrator is paused after alice registered, was verified and
\* created a transaction: a further transaction of alice and a registration
\* of bob are rejected as paused
C33_Witness ==
    /\ paused
    /\ "alice" \in DOMAIN entities
    /\ entities["alice"].verified
    /\ "bob" \notin DOMAIN entities
    /\ \E txId \in DOMAIN transactions : transactions[txId].initiator = "alice"
    /\ CreateCrossModuleTransactionRevert("alice", <<"agriculture">>) = "Pausable: paused"
    /\ RegisterEntityRevert("bob", <<"agriculture">>) = "Pausable: paused"
    /\ PauseRevert("alice") = MissingRole
    /\ UnpauseRevert("deployer") = ""

-----------------------------------------------------------------------------
(* Properties of the file service (SpecFiles) *)

\* the chunks are non-empty, at most MAX_CHUNK_SIZE long, all but the last
\* exactly MAX_CHUNK_SIZE long, and byte for byte the content in its order
ChunksOf(contents, chunks) ==
    /\ \A k \in 1..Len(chunks) :
          /\ Len(chunks[k]) >= 1
          /\ Len(chunks[k]) <= 4096
          /\ k < Len(chunks) => Len(chunks[k]) = 4096
    /\ Len(chunks) = (Len(contents) + 4095) \div 4096
    /\ Flatten(chunks) = contents
    /\ \A p \in 1..Len(contents) :
          chunks[((p - 1) \div 4096) + 1][((p - 1) % 4096) + 1] = contents[p]

\* C34: splitIntoChunks of a non-empty content gives non-empty chunks of at
\* most 4096 bytes, all but the last of exactly 4096 bytes, whose
\* concatenation in order is the content; createFile writes the first chunk
\* and appends the others in that order, so that the file holds the content
\* when createFile returns.
C34_ChunkingLossless ==
    /\ [](fileTask # NoTask =>
             /\ Len(fileTask.contents) >= 1
             /\ ChunksOf(fileTask.contents, fileTask.chunks))
    /\ [](fileTask.pc \in {"append", "returned"} =>
             files[fileTask.fileId]
                 = Flatten(SubSeq(fileTask.chunks, 1, fileTask.i - 1)))
    /\ [](fileTask.pc = "returned" =>
             files[fileTask.fileId] = fileTask.contents)
    /\ [][(fileTask.pc = "idle" /\ fileTask'.pc = "append") =>
             files'[fileTask'.fileId] = fileTask'.chunks[1]]_vars
    /\ [][(fileTask.pc = "append" /\ fileTask'.pc = "append") =>
             /\ fileTask'.i = fileTask.i + 1
             /\ files'[fileTask.fileId]
                    = files[fileTask.fileId] \o fileTask.chunks[fileTask.i]]_vars

\* createFile returned for a content of two full chunks and one byte: the
\* file holds the 8193 bytes in their order
C34_Witness ==
    /\ fileTask.pc = "returned"
    /\ Len(fileTask.contents) = 8193
    /\ Len(fileTask.chunks) = 3
    /\ Len(fileTask.chunks[1]) = 4096
    /\ Len(fileTask.chunks[2]) = 4096
    /\ fileTask.chunks[3] = <<fileTask.contents[8193]>>
    /\ fileTask.chunks[1] # fileTask.chunks[2]
    /\ files[fileTask.fileId] = fileTask.contents

-----------------------------------------------------------------------------
(* Properties of the transaction status as coded (SpecTransactions) *)

\* C35: no operation stores the status PROCESSING: every stored transaction
\* is PENDING, completeCrossModuleTransaction fails for every caller and
\* every id (for a module as an invalid status), no completion is logged and
\* totalTransactions of every entity is 0.
C35_NothingEverCompletes ==
    /\ \A txId \in DOMAIN transactions : transactions[txId].status = "PENDING"
    /\ \A caller \in Addr, txId \in TxIds :
          /\ CompleteCrossModuleTransactionRevert(caller, txId) # ""
          /\ caller \in orchRoles["MODULE_ROLE"] =>
                CompleteCrossModuleTransactionRevert(caller, txId) = "Invalid status"
    /\ \A txId \in TxIds :
          EventCount(orchEvents, "CrossModuleTransactionCompleted", TxKey(txId)) = 0
    /\ \A a \in DOMAIN entities : entities[a].totalTransactions = 0

\* bob created a transaction and alice is a module: the transaction is
\* pending and alice's completion of it fails as an invalid status
C35_Witness ==
    /\ "alice" \in orchRoles["MODULE_ROLE"]
    /\ \E txId \in DOMAIN transactions :
          /\ transactions[txId].initiator = "bob"
          /\ transactions[txId].status = "PENDING"
          /\ CompleteCrossModuleTransactionRevert("alice", txId) = "Invalid status"
          /\ EventCount(orchEvents, "CrossModuleTransactionCreated", TxKey(txId)) >= 1
    /\ entities["bob"].totalTransactions = 0

-----------------------------------------------------------------------------
(* Properties of the funds of the agriculture contract (SpecAgriculture) *)

RECURSIVE SumOfEscrow(_, _)
\* the sum of escrowAmount over the sales contracts with the ids given
SumOfEscrow(contracts, ids) ==
    IF ids = {} THEN 0
    ELSE LET id == CHOOSE x \in ids : TRUE
         IN  contracts[id].escrowAmount + SumOfEscrow(contracts, ids \ {id})

\* the ids of the sales contracts that are not completed
OpenContracts == {id \in DOMAIN salesContracts : ~salesContracts[id].completed}

\* C36: between transactions the funds held by the agriculture contract are
\* at least the sum of escrowAmount over the sales contracts that are not
\* completed, so that insurance payouts are never paid out of deposited
\* escrow.
C36_EscrowSolvent ==
    frame = NoFrame =>
        agriBalance >= SumOfEscrow(salesContracts, OpenContracts)

-----------------------------------------------------------------------------
(* Properties of module authority (SpecModules) *)

\* the addresses configured as healthcare, agriculture, supply chain or
\* sustainability module
ConfiguredModules ==
    {modules[field] : field \in DOMAIN modules} \ {ZeroAddress}

\* C37: the accounts that hold MODULE_ROLE are the addresses configured as a
\* module, so that an address replaced as a module fails in updateReputation
\* and completeCrossModuleTransaction as a missing role.
C37_AuthorityFollowsConfiguration ==
    /\ orchRoles["MODULE_ROLE"] = ConfiguredModules
    /\ \A caller \in Addr \ ConfiguredModules :
          /\ \A entity \in Addr, change \in Deltas :
                UpdateReputationRevert(caller, entity, change) = MissingRole
          /\ \A txId \in TxIds :
                CompleteCrossModuleTransactionRevert(caller, txId) = MissingRole

-----------------------------------------------------------------------------
(* Properties of retryOperation (SpecRetryLive, SpecRetry) *)

\* the errors the call retries after: UNKNOWN, UNAVAILABLE, DEADLINE_EXCEEDED
\* in the message, or gRPC code 2 or 14
RetriedError(error) ==
    \/ error.words \cap {"UNKNOWN", "UNAVAILABLE", "DEADLINE_EXCEEDED"} # {}
    \/ error.code \in {2, 14}

\* the call has returned or thrown
RetryEnded == retryTask.pc \in {"returned", "thrown"}

\* the operation was invoked at most maxRetries times, once more than it
\* failed while an attempt runs or after one succeeded; every failure but
\* the last was a retried error
AttemptsBounded ==
    retryTask # NoRetryTask =>
        /\ retryTask.calls <= retryTask.maxRetries
        /\ retryTask.calls = Len(retryTask.errors)
               + (IF retryTask.pc \in {"attempt", "returned"} THEN 1 ELSE 0)
        /\ \A k \in 1..(Len(retryTask.errors) - 1) : RetriedError(retryTask.errors[k])

\* a call that returned made no attempt after the one that succeeded; a call
\* that has thrown throws the error of its last attempt, which is not a
\* retried error or is the error of attempt maxRetries
EndsAsClaimed ==
    /\ retryTask.pc = "returned" =>
          /\ retryTask.calls = Len(retryTask.errors) + 1
          /\ retryTask.calls = retryTask.attempt
    /\ (retryTask.pc = "thrown" /\ retryTask.maxRetries >= 1) =>
          /\ retryTask.errors # <<>>
          /\ retryTask.lastError = retryTask.errors[Len(retryTask.errors)]
          /\ \/ ~RetriedError(retryTask.lastError)
             \/ Len(retryTask.errors) = retryTask.maxRetries
    /\ (retryTask.pc = "waiting") =>
          /\ RetriedError(retryTask.lastError)
          /\ retryTask.attempt < retryTask.maxRetries

\* one wait before every retry: the first is delayMs and each later one is
\* 1.5 times the one before
WaitsGrow ==
    retryTask # NoRetryTask =>
        /\ Len(retryTask.waits)
               = IF retryTask.pc = "waiting" THEN retryTask.calls
                 ELSE IF retryTask.calls = 0 THEN 0
                 ELSE retryTask.calls - 1
        /\ retryTask.waits # <<>> =>
              \E delayMs \in Delays : retryTask.waits[1] = <<delayMs, 1>>
        /\ \A k \in 1..(Len(retryTask.waits) - 1) :
              retryTask.waits[k + 1][1] * retryTask.waits[k][2] * 2
                  = retryTask.waits[k][1] * retryTask.waits[k + 1][2] * 3

\* C38: retryOperation terminates; it invokes the operation at most
\* maxRetries times, returns the result of the first attempt that succeeds
\* with no further attempt, rethrows at once the first error that is not
\* retryable, rethrows the last error after attempt maxRetries failed, and
\* waits 1.5 times the previous wait before each retry.
C38_RetryTerminates ==
    /\ []AttemptsBounded
    /\ []EndsAsClaimed
    /\ []WaitsGrow
    /\ [][RetryEnded => retryTask' = retryTask]_vars
    /\ [][(retryTask.pc = "idle" /\ retryTask'.pc = "waiting") => FALSE]_vars
    /\ [][(retryTask.pc = "attempt" /\ retryTask'.pc = "waiting") =>
             retryTask'.waits[Len(retryTask'.waits)] = retryTask.delayMs]_vars
    /\ (retryTask # NoRetryTask) ~> RetryEnded

\* a call with maxRetries 3 and delayMs 2000 has thrown after three attempts
\* failed with retried errors and the waits 2000 and 3000
C38_Witness ==
    /\ retryTask.pc = "thrown"
    /\ retryTask.maxRetries = 3
    /\ retryTask.calls = 3
    /\ Len(retryTask.errors) = 3
    /\ retryTask.lastError = Error({}, 14)
    /\ retryTask.waits = <<<<2000, 1>>, <<6000, 2>>>>

\* C39: one call of executeContract submits the contract transaction to the
\* ledger at most once, whatever fails after the submission.
C39_SubmittedAtMostOnce ==
    (retryTask # NoRetryTask /\ retryTask.functionKind = "execute") =>
        retryTask.submitted <= 1

-----------------------------------------------------------------------------
(* C40: the sales step of the workflow succeeds: with a buyer that is not   *)
(* the operator, the operator's createSalesContract, depositEscrow and      *)
(* processPayment never end the run in its catch block.                     *)
C40_SalesStepSucceeds ==
    flow.buyer # Operator => flow.pc # "failed"

\* with the operator as its own buyer the run still fails unless a verifier
\* confirms the delivery while the run is between its deposit and its payment
WorkflowPaidOnlyAfterConfirmation ==
    flow.pc \in {"getRecord", "salesCompleted"} =>
        /\ flow.buyer = Operator
        /\ SalesContractAt(flow.contractId).deliveryConfirmed
        /\ SalesContractAt(flow.contractId).qualityVerified
====
